---- MODULE Spec2Model ----
(***************************************************************************)
(* Model of the IFEval-FC format checkers (src/IFEval_FC/checkers.py) and  *)
(* of the text primitives they call (src/IFEval_FC/utils.py).              *)
(*                                                                         *)
(* A text is a sequence of one-character strings.  A checker instance is   *)
(* its `arguments` mapping; a call is the callee's name, the input drawn   *)
(* in the initial state, and the value it returns.  Every specification    *)
(* below draws the inputs of one component in its initial states and has   *)
(* one action per function or method of that component, which computes     *)
(* the returned value as the code computes it.                             *)
(***************************************************************************)
EXTENDS Integers, Sequences, FiniteSets, TLC

VARIABLES
    callee,     \* the function, or the checker class whose check_following runs
    arguments,  \* self.arguments of the checker instance (<<>> for a function)
    description, \* the instance's rendered description
    arg_value,  \* the text passed to the callee
    count,      \* the observed count passed to compare_count
    ret,        \* the value returned by the call
    pc          \* "call" before the callee has run, "return" after

vars == <<callee, arguments, description, arg_value, count, ret, pc>>

\* All texts of at most n characters over the alphabet A.
Strings(A, n) == UNION {[1..k -> A] : k \in 0..n}

\* The value ret holds before the callee has returned.
NoValue == FALSE

\* The description in the specifications of a single check, where the
\* arguments are set by the caller and the description plays no part.
NoDescription == <<>>

(***************************************************************************)
(* Character classes and the str methods the code relies on.               *)
(***************************************************************************)
\* The grave accent U+0060, which a TLA+ string cannot hold.
BACKTICK == "<U+0060>"

\* string.punctuation
ASCII_PUNCTUATION ==
    {"!", "\"", "#", "$", "%", "&", "'", "(", ")", "*", "+", ",", "-", ".",
     "/", ":", ";", "<", "=", ">", "?", "@", "[", "\\", "]", "^", "_", BACKTICK,
     "{", "|", "}", "~"}

\* The characters str.split() and str.strip() treat as whitespace (the ones
\* the model's alphabets use).
WHITESPACE == {" ", "\t", "\n", "\r"}

UPPER == <<"A","B","C","D","E","F","G","H","I","J","K","L","M",
           "N","O","P","Q","R","S","T","U","V","W","X","Y","Z">>
LOWER == <<"a","b","c","d","e","f","g","h","i","j","k","l","m",
           "n","o","p","q","r","s","t","u","v","w","x","y","z">>
UpperSet == {UPPER[i] : i \in 1..26}
LowerSet == {LOWER[i] : i \in 1..26}
Letters == UpperSet \cup LowerSet
Digits == {"0", "1", "2", "3", "4", "5", "6", "7", "8", "9"}

\* str.lower() on one character, and on a text
\* Beyond ASCII two characters have a lower-case form that holds an ASCII
\* letter: the Kelvin sign U+212A becomes 'k', and U+0130 (capital I with a
\* dot above) becomes 'i' followed by the combining dot U+0307.
lower_char(c) ==
    IF c \in UpperSet THEN LOWER[CHOOSE i \in 1..26 : UPPER[i] = c]
    ELSE IF c = "<U+212A>" THEN "k"
    ELSE c
RECURSIVE lower(_)
lower(s) ==
    IF \A i \in 1..Len(s) : s[i] # "<U+0130>"
    THEN [i \in 1..Len(s) |-> lower_char(s[i])]
    ELSE (IF Head(s) = "<U+0130>" THEN <<"i", "<U+0307>">> ELSE <<lower_char(Head(s))>>)
         \o lower(Tail(s))

\* str.strip(): leading and trailing whitespace removed
RECURSIVE lstrip(_)
lstrip(s) == IF s # <<>> /\ Head(s) \in WHITESPACE THEN lstrip(Tail(s)) ELSE s
RECURSIVE rstrip(_)
rstrip(s) ==
    IF s # <<>> /\ s[Len(s)] \in WHITESPACE
    THEN rstrip(SubSeq(s, 1, Len(s) - 1)) ELSE s
strip(s) == rstrip(lstrip(s))

\* str.split() without a separator: the maximal runs of non-whitespace
\* characters, in order; `cur` is the run being read.
RECURSIVE split_ws(_, _)
split_ws(s, cur) ==
    IF s = <<>> THEN (IF cur = <<>> THEN <<>> ELSE <<cur>>)
    ELSE IF Head(s) \in WHITESPACE
         THEN (IF cur = <<>> THEN <<>> ELSE <<cur>>) \o split_ws(Tail(s), <<>>)
         ELSE split_ws(Tail(s), Append(cur, Head(s)))
split(s) == split_ws(s, <<>>)

\* Whether the text s has the text p at position i (1-based).
StartsAt(s, p, i) ==
    /\ i >= 1
    /\ i + Len(p) - 1 <= Len(s)
    /\ \A j \in 1..Len(p) : s[i + j - 1] = p[j]

\* The value of a text is computed once where it is bound to a name used
\* more than once: TheElement({F(s) : s \in {text}}) is F(text).
TheElement(S) == CHOOSE v \in S : TRUE

\* str.split(sep) for a non-empty separator: the pieces between the
\* occurrences of sep found from the left, empty ones included; `cur` is the
\* piece being read from position i on.
RECURSIVE split_from(_, _, _, _)
split_from(s, sep, i, cur) ==
    IF i > Len(s) THEN <<cur>>
    ELSE IF StartsAt(s, sep, i) THEN <<cur>> \o split_from(s, sep, i + Len(sep), <<>>)
    ELSE split_from(s, sep, i + 1, Append(cur, s[i]))
str_split(s, sep) == TheElement({split_from(t, sep, 1, <<>>) : t \in {s}})

\* sep.join(parts)
RECURSIVE str_join(_, _)
str_join(sep, parts) ==
    IF parts = <<>> THEN <<>>
    ELSE IF Len(parts) = 1 THEN parts[1]
    ELSE parts[1] \o sep \o str_join(sep, Tail(parts))

(***************************************************************************)
(* utils.py: comparison semantics                                          *)
(***************************************************************************)
COMPARISON_OPTIONS == {"exactly", "at most", "at least"}

\* compare_count with a strict "at least"
compare_count_strict(result, N, comparison_option) ==
    IF comparison_option = "at least" THEN result > N
    ELSE IF comparison_option = "at most" THEN result <= N
    ELSE IF comparison_option = "exactly" THEN result = N
    ELSE "None"

\* compare_count: the value after the last elif is Python's implicit None
compare_count(result, N, comparison_option) ==
    IF comparison_option = "at least" THEN result >= N
    ELSE IF comparison_option = "at most" THEN result <= N
    ELSE IF comparison_option = "exactly" THEN result = N
    ELSE "None"

(***************************************************************************)
(* SpecCompare: one call of compare_count                                  *)
(***************************************************************************)
MaxCount == 5
MaxN == 4

CountArguments == [N : 1..MaxN, comparison_option : COMPARISON_OPTIONS]

InitCompare ==
    /\ callee = "compare_count"
    /\ arguments \in CountArguments
    /\ arg_value = <<>>
    /\ count \in 0..MaxCount
    /\ description = NoDescription
    /\ ret = NoValue
    /\ pc = "call"

CompareCount ==
    /\ pc = "call"
    /\ callee = "compare_count"
    /\ ret' = compare_count(count, arguments.N, arguments.comparison_option)
    /\ pc' = "return"
    /\ UNCHANGED <<callee, arguments, description, arg_value, count>>

SpecCompare == InitCompare /\ [][CompareCount]_vars

\* C1: for every observed count, target N and option of the enumeration,
\* compare_count returns a boolean, true exactly when the count is equal to,
\* at least, or at most N according to the option.
C1_CompareMatchesOperator ==
    (pc = "return" /\ callee = "compare_count") =>
        /\ ret \in BOOLEAN
        /\ arguments.comparison_option = "exactly" => (ret <=> count = arguments.N)
        /\ arguments.comparison_option = "at least" => (ret <=> count >= arguments.N)
        /\ arguments.comparison_option = "at most" => (ret <=> count <= arguments.N)

\* compare_count has returned for the boundary case count = N under "at least".
C1_Witness ==
    /\ pc = "return"
    /\ callee = "compare_count"
    /\ arguments.comparison_option = "at least"
    /\ count = arguments.N
    /\ ret = TRUE

(***************************************************************************)
(* utils.py: the tokenizer; checkers.py: KeywordsPresenceChecker           *)
(***************************************************************************)
\* str.translate(str.maketrans(string.punctuation, " " * len(...)))
translate_punctuation(text) ==
    [i \in 1..Len(text) |-> IF text[i] \in ASCII_PUNCTUATION THEN " " ELSE text[i]]

\* clean_and_split that never lower-cases
clean_and_split_keep_case(text, lower_flag) ==
    split(translate_punctuation(text))

\* clean_and_split(text, lower)
clean_and_split(text, lower_flag) ==
    LET cleaned == translate_punctuation(text)
    IN  IF lower_flag THEN split(lower(cleaned)) ELSE split(cleaned)

\* The elements of a list
Elems(list) == {list[i] : i \in 1..Len(list)}

\* Whether the text p occurs somewhere in the text s (Python's `p in s`).
Contains(s, p) == \E i \in 1..(Len(s) + 1) : StartsAt(s, p, i)

\* KeywordsPresenceChecker.check_following matching keywords as substrings
\* of the cleaned text
KeywordsPresence_substring(args, value) ==
    LET keywords == args.list_of_keywords
        cleaned == lower(translate_punctuation(value))
        keyword_lower == [i \in 1..Len(keywords) |-> lower(keywords[i])]
    IN  IF args.must_include
        THEN \A i \in 1..Len(keyword_lower) : Contains(cleaned, keyword_lower[i])
        ELSE \A i \in 1..Len(keyword_lower) : ~Contains(cleaned, keyword_lower[i])

\* KeywordsPresenceChecker.check_following
KeywordsPresence_check_following(args, value) ==
    LET keywords == args.list_of_keywords
        must_include == args.must_include
        words == Elems(clean_and_split(value, TRUE))
        keyword_lower == [i \in 1..Len(keywords) |-> lower(keywords[i])]
    IN  IF must_include
        THEN \A i \in 1..Len(keyword_lower) : keyword_lower[i] \in words
        ELSE \A i \in 1..Len(keyword_lower) : keyword_lower[i] \notin words

(***************************************************************************)
(* SpecKeywords: one check of a KeywordsPresenceChecker whose arguments    *)
(* were assigned by the caller                                             *)
(***************************************************************************)
MaxKeywordTextLen == 4

\* Letters in both cases, the three separators of the tokenizer's
\* description (space, tab, punctuation)
KeywordAlphabet == {"a", "b", "A", " ", "\t", "."}

\* Keywords are words of letters, as all of EN_WORD_LIST are.
Keywords == {<<"a">>, <<"A", "b">>}

KeywordLists ==
    {<<k>> : k \in Keywords} \cup {p \in Keywords \X Keywords : p[1] # p[2]}

InitKeywords ==
    /\ callee = "KeywordsPresenceChecker"
    /\ arguments \in [list_of_keywords : KeywordLists, must_include : BOOLEAN]
    /\ arg_value \in Strings(KeywordAlphabet, MaxKeywordTextLen)
    /\ count = 0
    /\ description = NoDescription
    /\ ret = NoValue
    /\ pc = "call"

KeywordsPresenceCheck ==
    /\ pc = "call"
    /\ callee = "KeywordsPresenceChecker"
    /\ ret' = KeywordsPresence_check_following(arguments, arg_value)
    /\ pc' = "return"
    /\ UNCHANGED <<callee, arguments, description, arg_value, count>>

SpecKeywords == InitKeywords /\ [][KeywordsPresenceCheck]_vars

\* The check has run with must_include = true and the keyword list [k].
SingleKeywordIncludeReturned ==
    /\ pc = "return"
    /\ callee = "KeywordsPresenceChecker"
    /\ arguments.must_include
    /\ Len(arguments.list_of_keywords) = 1

\* value = k followed by a non-empty suffix of characters outside `excluded`
IsKeywordPlusSuffix(value, k, excluded) ==
    /\ Len(value) > Len(k)
    /\ SubSeq(value, 1, Len(k)) = k
    /\ \A i \in (Len(k) + 1)..Len(value) : value[i] \notin excluded

\* C2 as stated: k followed by any non-empty suffix of characters that are
\* neither the space character nor punctuation is never matched.
C2_NonSpaceSuffixRejected ==
    (/\ SingleKeywordIncludeReturned
     /\ IsKeywordPlusSuffix(arg_value, arguments.list_of_keywords[1],
                            {" "} \cup ASCII_PUNCTUATION))
        => ret = FALSE

\* C2 amended: k followed by any non-empty suffix of characters that are
\* neither whitespace (space, tab, newline, ...) nor punctuation is never
\* matched: k is not found as a part of a longer token.
C2_NonWhitespaceSuffixRejected ==
    (/\ SingleKeywordIncludeReturned
     /\ IsKeywordPlusSuffix(arg_value, arguments.list_of_keywords[1],
                            WHITESPACE \cup ASCII_PUNCTUATION))
        => ret = FALSE

\* The keyword "a" inside the longer token "ab" has been checked.
C2_Witness ==
    /\ SingleKeywordIncludeReturned
    /\ arguments.list_of_keywords = << <<"a">> >>
    /\ arg_value = <<"a", "b">>
    /\ ret = FALSE

\* value = some letter-case variant of k with only punctuation and
\* whitespace before and after it
IsKeywordAlone(value, k) ==
    \E i \in 1..Len(value) :
        /\ i + Len(k) - 1 <= Len(value)
        /\ lower(SubSeq(value, i, i + Len(k) - 1)) = lower(k)
        /\ \A j \in 1..Len(value) :
              (j < i \/ j > i + Len(k) - 1)
                  => value[j] \in ASCII_PUNCTUATION \cup WHITESPACE

\* C3: a value that is k alone, in any letter case, surrounded by any
\* punctuation or whitespace, satisfies the must_include check for [k].
C3_KeywordAloneAccepted ==
    (/\ SingleKeywordIncludeReturned
     /\ IsKeywordAlone(arg_value, arguments.list_of_keywords[1]))
        => ret = TRUE

\* The keyword "Ab" written "ab" between a period and a tab was accepted.
C3_Witness ==
    /\ SingleKeywordIncludeReturned
    /\ arguments.list_of_keywords = << <<"A", "b">> >>
    /\ arg_value = <<".", "a", "b", "\t">>
    /\ ret = TRUE

(***************************************************************************)
(* checkers.py: WordCountChecker                                           *)
(***************************************************************************)
\* The regular expression class \w on the characters the model uses:
\* letters, digits and the underscore.
IsWordChar(c) == c \in Letters \cup Digits \cup {"_"}

\* The tokenizer with the pattern \w in place of \w+: one token per
\* word character
regexp_tokenize_single(text) ==
    SelectSeq([i \in 1..Len(text) |-> <<text[i]>>], LAMBDA t : IsWordChar(t[1]))

\* nltk.tokenize.RegexpTokenizer(r"\w+").tokenize(text), that is
\* re.findall(r"\w+", text): scanning from the left, each match takes as
\* many word characters as follow; `cur` is the match being read.
RECURSIVE findall_word_runs(_, _)
findall_word_runs(s, cur) ==
    IF s = <<>> THEN (IF cur = <<>> THEN <<>> ELSE <<cur>>)
    ELSE IF IsWordChar(Head(s))
         THEN findall_word_runs(Tail(s), Append(cur, Head(s)))
         ELSE (IF cur = <<>> THEN <<>> ELSE <<cur>>)
                  \o findall_word_runs(Tail(s), <<>>)
regexp_tokenize(text) == findall_word_runs(text, <<>>)

\* WordCountChecker.check_following
WordCount_check_following(args, value) ==
    LET N == args.N
        comparison_option == args.comparison_option
        words == regexp_tokenize(value)
    IN  compare_count(Len(words), N, comparison_option)

(***************************************************************************)
(* SpecWordCount: one check of a WordCountChecker whose arguments were     *)
(* assigned by the caller                                                  *)
(***************************************************************************)
MaxWordTextLen == 5

\* A letter, the underscore, another punctuation character, space and tab
WordAlphabet == {"a", "_", ".", " ", "\t"}

InitWordCount ==
    /\ callee = "WordCountChecker"
    /\ arguments \in CountArguments
    /\ arg_value \in Strings(WordAlphabet, MaxWordTextLen)
    /\ count = 0
    /\ description = NoDescription
    /\ ret = NoValue
    /\ pc = "call"

WordCountCheck ==
    /\ pc = "call"
    /\ callee = "WordCountChecker"
    /\ ret' = WordCount_check_following(arguments, arg_value)
    /\ pc' = "return"
    /\ UNCHANGED <<callee, arguments, description, arg_value, count>>

SpecWordCount == InitWordCount /\ [][WordCountCheck]_vars

WordCountReturned == pc = "return" /\ callee = "WordCountChecker"

\* The number of tokens of the punctuation-to-space tokenizer
PunctuationSplitCount(value) == Len(clean_and_split(value, TRUE))

\* The number of maximal runs of word characters: the positions where a
\* word character follows the start of the text or a non-word character
WordRunCount(value) ==
    Cardinality({i \in 1..Len(value) :
        /\ IsWordChar(value[i])
        /\ (i = 1 \/ ~IsWordChar(value[i - 1]))})

\* C4 as stated: the word-count check compares to N the number of tokens
\* obtained by replacing punctuation with spaces and splitting on whitespace.
C4_CountsPunctuationSplitTokens ==
    WordCountReturned =>
        ret = compare_count(PunctuationSplitCount(arg_value), arguments.N,
                            arguments.comparison_option)

\* C4 amended: the word-count check compares to N the number of maximal
\* runs of word characters (letters, digits, underscore); for a value
\* without an underscore this is the punctuation-to-space token count.
C4_CountsWordCharacterRuns ==
    WordCountReturned =>
        /\ ret = compare_count(WordRunCount(arg_value), arguments.N,
                               arguments.comparison_option)
        /\ (\A i \in 1..Len(arg_value) : arg_value[i] # "_")
              => ret = compare_count(PunctuationSplitCount(arg_value), arguments.N,
                                     arguments.comparison_option)

\* "a_a. a" was checked against exactly 2: the underscore joins a_a into one
\* word, the period and the space separate it from the second.
C4_Witness ==
    /\ WordCountReturned
    /\ arg_value = <<"a", "_", "a", ".", "a">>
    /\ arguments = [N |-> 2, comparison_option |-> "exactly"]
    /\ ret = TRUE

(***************************************************************************)
(* utils.py: regular-expression substitution and the sentence segmenter    *)
(***************************************************************************)
\* re.sub and str.replace for patterns that match no empty text: scanning
\* from the left, a match of match_len[i] > 0 elements at position i is
\* replaced by repl[i] and the scan goes on after it; otherwise the element
\* is copied.
re_sub(s, match_len, repl) ==
    LET scan[i \in 1..(Len(s) + 1)] ==
            IF i > Len(s) THEN <<>>
            ELSE IF match_len[i] > 0 THEN repl[i] \o scan[i + match_len[i]]
                 ELSE <<s[i]>> \o scan[i + 1]
    IN  scan[1]

\* str.replace(old, new) for a non-empty old
str_replace(s, old, new) ==
    LET MatchLen(t, i) == IF StartsAt(t, old, i) THEN Len(old) ELSE 0
        Repl(t, i, n) == new
        Sub(t) == re_sub(t, [i \in 1..Len(t) |-> MatchLen(t, i)],
                         [i \in 1..Len(t) |-> Repl(t, i, MatchLen(t, i))])
    IN  TheElement({Sub(t) : t \in {s}})

\* A pattern without repetition is a sequence of character classes.
Lit(p) == [j \in 1..Len(p) |-> {p[j]}]
MatchesAt(s, i, pat) ==
    /\ i >= 1
    /\ i + Len(pat) - 1 <= Len(s)
    /\ \A j \in 1..Len(pat) : s[i + j - 1] \in pat[j]

\* The length matched at i by the first alternative of (a|b|...) that
\* matches there, 0 when none does.
AltLen(s, i, alts) ==
    IF \E k \in 1..Len(alts) : MatchesAt(s, i, alts[k])
    THEN Len(alts[CHOOSE k \in 1..Len(alts) :
                    /\ MatchesAt(s, i, alts[k])
                    /\ \A m \in 1..(k - 1) : ~MatchesAt(s, i, alts[m])])
    ELSE 0

\* The placeholders the segmenter writes into the text; the model keeps
\* each as one element (the texts it reads hold no "<" or ">").
PRD == "<prd>"
STOP == "<stop>"
\* The right double quotation mark U+201D
RDQUO == "<U+201D>"

_ALPHABETS == Letters
_PREFIXES ==
    <<Lit(<<"M", "r">>), Lit(<<"S", "t">>), Lit(<<"M", "r", "s">>),
      Lit(<<"M", "s">>), Lit(<<"D", "r">>)>>
_SUFFIXES ==
    <<Lit(<<"I", "n", "c">>), Lit(<<"L", "t", "d">>), Lit(<<"J", "r">>),
      Lit(<<"S", "r">>), Lit(<<"C", "o">>)>>
_STARTERS ==
    <<Lit(<<"M", "r">>), Lit(<<"M", "r", "s">>), Lit(<<"M", "s">>),
      Lit(<<"D", "r">>), Lit(<<"P", "r", "o", "f">>), Lit(<<"C", "a", "p", "t">>),
      Lit(<<"C", "p", "t">>), Lit(<<"L", "t">>),
      Lit(<<"H", "e">>) \o <<WHITESPACE>>, Lit(<<"S", "h", "e">>) \o <<WHITESPACE>>,
      Lit(<<"I", "t">>) \o <<WHITESPACE>>, Lit(<<"T", "h", "e", "y">>) \o <<WHITESPACE>>,
      Lit(<<"T", "h", "e", "i", "r">>) \o <<WHITESPACE>>,
      Lit(<<"O", "u", "r">>) \o <<WHITESPACE>>, Lit(<<"W", "e">>) \o <<WHITESPACE>>,
      Lit(<<"B", "u", "t">>) \o <<WHITESPACE>>,
      Lit(<<"H", "o", "w", "e", "v", "e", "r">>) \o <<WHITESPACE>>,
      Lit(<<"T", "h", "a", "t">>) \o <<WHITESPACE>>,
      Lit(<<"T", "h", "i", "s">>) \o <<WHITESPACE>>,
      Lit(<<"W", "h", "e", "r", "e", "v", "e", "r">>)>>
_WEBSITES ==
    <<Lit(<<"c", "o", "m">>), Lit(<<"n", "e", "t">>), Lit(<<"o", "r", "g">>),
      Lit(<<"i", "o">>), Lit(<<"g", "o", "v">>), Lit(<<"e", "d", "u">>),
      Lit(<<"m", "e">>)>>
_DIGITS == Digits

\* Each alternative of alts followed by the classes of tail
WithTail(alts, tail) == [k \in 1..Len(alts) |-> alts[k] \o tail]
\* The classes of head followed by each alternative of alts
WithHead(head, alts) == [k \in 1..Len(alts) |-> head \o alts[k]]

\* re.sub(_PREFIXES, "\\1<prd>", text), _PREFIXES = "(Mr|St|Mrs|Ms|Dr)[.]"
sub_prefixes(text) ==
    LET MatchLen(s, i) == AltLen(s, i, WithTail(_PREFIXES, <<{"."}>>))
        Repl(s, i, n) == SubSeq(s, i, i + n - 2) \o <<PRD>>
        Sub(s) == re_sub(s, [i \in 1..Len(s) |-> MatchLen(s, i)],
                         [i \in 1..Len(s) |-> Repl(s, i, MatchLen(s, i))])
    IN  TheElement({Sub(s) : s \in {text}})

\* re.sub(_WEBSITES, "<prd>\\1", text), _WEBSITES = "[.](com|net|...)"
sub_websites(text) ==
    LET MatchLen(s, i) == AltLen(s, i, WithHead(<<{"."}>>, _WEBSITES))
        Repl(s, i, n) == <<PRD>> \o SubSeq(s, i + 1, i + n - 1)
        Sub(s) == re_sub(s, [i \in 1..Len(s) |-> MatchLen(s, i)],
                         [i \in 1..Len(s) |-> Repl(s, i, MatchLen(s, i))])
    IN  TheElement({Sub(s) : s \in {text}})

\* re.sub(_DIGITS + "[.]" + _DIGITS, "\\1<prd>\\2", text)
sub_digits(text) ==
    LET MatchLen(s, i) ==
            IF MatchesAt(s, i, <<_DIGITS, {"."}, _DIGITS>>) THEN 3 ELSE 0
        Repl(s, i, n) == <<s[i], PRD, s[i + 2]>>
        Sub(s) == re_sub(s, [i \in 1..Len(s) |-> MatchLen(s, i)],
                         [i \in 1..Len(s) |-> Repl(s, i, MatchLen(s, i))])
    IN  TheElement({Sub(s) : s \in {text}})

\* The number of consecutive periods from position i on
RECURSIVE DotRun(_, _)
DotRun(s, i) == IF i <= Len(s) /\ s[i] = "." THEN 1 + DotRun(s, i + 1) ELSE 0

\* The ellipsis substitution without the "<stop>" after the run
sub_multiple_dots_no_stop(text) ==
    LET MatchLen(s, i) == IF DotRun(s, i) >= 2 THEN DotRun(s, i) ELSE 0
        Repl(s, i, n) == [j \in 1..n |-> PRD]
        Sub(s) == re_sub(s, [i \in 1..Len(s) |-> MatchLen(s, i)],
                         [i \in 1..Len(s) |-> Repl(s, i, MatchLen(s, i))])
    IN  TheElement({Sub(s) : s \in {text}})

\* re.sub(_MULTIPLE_DOTS, lambda match: "<prd>" * len(match.group(0)) + "<stop>", text)
sub_multiple_dots(text) ==
    LET MatchLen(s, i) == IF DotRun(s, i) >= 2 THEN DotRun(s, i) ELSE 0
        Repl(s, i, n) == [j \in 1..n |-> PRD] \o <<STOP>>
        Sub(s) == re_sub(s, [i \in 1..Len(s) |-> MatchLen(s, i)],
                         [i \in 1..Len(s) |-> Repl(s, i, MatchLen(s, i))])
    IN  TheElement({Sub(s) : s \in {text}})

\* if "Ph.D" in text: text = text.replace("Ph.D.", "Ph<prd>D<prd>")
sub_phd(text) ==
    IF Contains(text, <<"P", "h", ".", "D">>)
    THEN str_replace(text, <<"P", "h", ".", "D", ".">>, <<"P", "h", PRD, "D", PRD>>)
    ELSE text

\* re.sub(r"\s" + _ALPHABETS + "[.] ", " \\1<prd> ", text)
sub_spaced_initial(text) ==
    LET MatchLen(s, i) ==
            IF MatchesAt(s, i, <<WHITESPACE, _ALPHABETS, {"."}, {" "}>>) THEN 4 ELSE 0
        Repl(s, i, n) == <<" ", s[i + 1], PRD, " ">>
        Sub(s) == re_sub(s, [i \in 1..Len(s) |-> MatchLen(s, i)],
                         [i \in 1..Len(s) |-> Repl(s, i, MatchLen(s, i))])
    IN  TheElement({Sub(s) : s \in {text}})

\* _ACRONYMS = "([A-Z][.][A-Z][.](?:[A-Z][.])?)": the length of the acronym
\* that, followed by a space and a starter, matches at i (the three-letter
\* form is tried first), 0 when none does.
AcronymLen(s, i) ==
    LET two == <<UpperSet, {"."}, UpperSet, {"."}>>
        three == two \o <<UpperSet, {"."}>>
        Follows(j) == j <= Len(s) /\ s[j] = " " /\ AltLen(s, j + 1, _STARTERS) > 0
    IN  IF MatchesAt(s, i, three) /\ Follows(i + 6) THEN 6
        ELSE IF MatchesAt(s, i, two) /\ Follows(i + 4) THEN 4
        ELSE 0

\* re.sub(_ACRONYMS + " " + _STARTERS, "\\1<stop> \\2", text)
sub_acronym_starter(text) ==
    LET MatchLen(s, i) ==
            IF AcronymLen(s, i) > 0
            THEN AcronymLen(s, i) + 1 + AltLen(s, i + AcronymLen(s, i) + 1, _STARTERS)
            ELSE 0
        Repl(s, i, n) ==
            LET a == AcronymLen(s, i)
            IN  SubSeq(s, i, i + a - 1) \o <<STOP, " ">> \o SubSeq(s, i + a + 1, i + n - 1)
        Sub(s) == re_sub(s, [i \in 1..Len(s) |-> MatchLen(s, i)],
                         [i \in 1..Len(s) |-> Repl(s, i, MatchLen(s, i))])
    IN  TheElement({Sub(s) : s \in {text}})

\* re.sub(_ALPHABETS + "[.]" + _ALPHABETS + "[.]" + _ALPHABETS + "[.]", ...)
sub_three_initials(text) ==
    LET MatchLen(s, i) ==
            IF MatchesAt(s, i, <<_ALPHABETS, {"."}, _ALPHABETS, {"."}, _ALPHABETS, {"."}>>)
            THEN 6 ELSE 0
        Repl(s, i, n) == <<s[i], PRD, s[i + 2], PRD, s[i + 4], PRD>>
        Sub(s) == re_sub(s, [i \in 1..Len(s) |-> MatchLen(s, i)],
                         [i \in 1..Len(s) |-> Repl(s, i, MatchLen(s, i))])
    IN  TheElement({Sub(s) : s \in {text}})

\* re.sub(_ALPHABETS + "[.]" + _ALPHABETS + "[.]", "\\1<prd>\\2<prd>", text)
sub_two_initials(text) ==
    LET MatchLen(s, i) ==
            IF MatchesAt(s, i, <<_ALPHABETS, {"."}, _ALPHABETS, {"."}>>) THEN 4 ELSE 0
        Repl(s, i, n) == <<s[i], PRD, s[i + 2], PRD>>
        Sub(s) == re_sub(s, [i \in 1..Len(s) |-> MatchLen(s, i)],
                         [i \in 1..Len(s) |-> Repl(s, i, MatchLen(s, i))])
    IN  TheElement({Sub(s) : s \in {text}})

\* The length of " " + suffix + "[.]" matched at i, 0 when none
SuffixDotLen(s, i) == AltLen(s, i, WithTail(WithHead(<<{" "}>>, _SUFFIXES), <<{"."}>>))

\* re.sub(" " + _SUFFIXES + "[.] " + _STARTERS, " \\1<stop> \\2", text)
sub_suffix_starter(text) ==
    LET Head1(s, i) ==
            IF /\ SuffixDotLen(s, i) > 0
               /\ i + SuffixDotLen(s, i) <= Len(s)
               /\ s[i + SuffixDotLen(s, i)] = " "
               /\ AltLen(s, i + SuffixDotLen(s, i) + 1, _STARTERS) > 0
            THEN SuffixDotLen(s, i) + 1
            ELSE 0
        MatchLen(s, i) ==
            IF Head1(s, i) > 0
            THEN Head1(s, i) + AltLen(s, i + Head1(s, i), _STARTERS)
            ELSE 0
        Repl(s, i, n) ==
            LET h == Head1(s, i)
            IN  SubSeq(s, i, i + h - 3) \o <<STOP, " ">> \o SubSeq(s, i + h, i + n - 1)
        Sub(s) == re_sub(s, [i \in 1..Len(s) |-> MatchLen(s, i)],
                         [i \in 1..Len(s) |-> Repl(s, i, MatchLen(s, i))])
    IN  TheElement({Sub(s) : s \in {text}})

\* re.sub(" " + _SUFFIXES + "[.]", " \\1<prd>", text)
sub_suffix(text) ==
    LET MatchLen(s, i) == SuffixDotLen(s, i)
        Repl(s, i, n) == SubSeq(s, i, i + n - 2) \o <<PRD>>
        Sub(s) == re_sub(s, [i \in 1..Len(s) |-> MatchLen(s, i)],
                         [i \in 1..Len(s) |-> Repl(s, i, MatchLen(s, i))])
    IN  TheElement({Sub(s) : s \in {text}})

\* re.sub(" " + _ALPHABETS + "[.]", " \\1<prd>", text)
sub_initial(text) ==
    LET MatchLen(s, i) ==
            IF MatchesAt(s, i, <<{" "}, _ALPHABETS, {"."}>>) THEN 3 ELSE 0
        Repl(s, i, n) == <<" ", s[i + 1], PRD>>
        Sub(s) == re_sub(s, [i \in 1..Len(s) |-> MatchLen(s, i)],
                         [i \in 1..Len(s) |-> Repl(s, i, MatchLen(s, i))])
    IN  TheElement({Sub(s) : s \in {text}})

\* if test in text: text = text.replace(mark + quote, quote + mark)
swap_quote(text, test, mark, quote) ==
    LET Fix(s) == IF Contains(s, <<test>>)
                  THEN str_replace(s, <<mark, quote>>, <<quote, mark>>) ELSE s
    IN  TheElement({Fix(s) : s \in {text}})

\* The four fix-ups that move a closing quotation mark before the terminator
sub_quotes(text) ==
    LET t1 == swap_quote(text, RDQUO, ".", RDQUO)
        t2 == swap_quote(t1, "\"", ".", "\"")
        t3 == swap_quote(t2, "!", "!", "\"")
        t4 == swap_quote(t3, "?", "?", "\"")
    IN  t4

\* mark_stops without the boundary after "?"
mark_stops_no_question(text) ==
    LET t1 == str_replace(text, <<".">>, <<".", STOP>>)
        t3 == str_replace(t1, <<"!">>, <<"!", STOP>>)
    IN  str_replace(t3, <<PRD>>, <<".">>)

\* text.replace(".", ".<stop>"), then "?", then "!", then "<prd>" back to "."
mark_stops(text) ==
    LET t1 == str_replace(text, <<".">>, <<".", STOP>>)
        t2 == str_replace(t1, <<"?">>, <<"?", STOP>>)
        t3 == str_replace(t2, <<"!">>, <<"!", STOP>>)
    IN  str_replace(t3, <<PRD>>, <<".">>)

\* extract_sentences(text)
extract_sentences(text) ==
    LET t0 == <<" ">> \o text \o <<" ", " ">>
        t1 == str_replace(t0, <<"\n">>, <<" ">>)
        t2 == sub_prefixes(t1)
        t3 == sub_websites(t2)
        t4 == sub_digits(t3)
        t5 == sub_multiple_dots(t4)
        t6 == sub_phd(t5)
        t7 == sub_spaced_initial(t6)
        t8 == sub_acronym_starter(t7)
        t9 == sub_three_initials(t8)
        t10 == sub_two_initials(t9)
        t11 == sub_suffix_starter(t10)
        t12 == sub_suffix(t11)
        t13 == sub_initial(t12)
        t14 == sub_quotes(t13)
        t15 == mark_stops(t14)
        Stripped(pieces) == [k \in 1..Len(pieces) |-> strip(pieces[k])]
        DropLastEmpty(sentences) ==
            IF sentences # <<>> /\ sentences[Len(sentences)] = <<>>
            THEN SubSeq(sentences, 1, Len(sentences) - 1)
            ELSE sentences
    IN  TheElement({DropLastEmpty(sentences) :
            sentences \in {Stripped(pieces) : pieces \in {str_split(t15, <<STOP>>)}}})

(***************************************************************************)
(* SpecSentences: one call of extract_sentences, or one check of a         *)
(* SentenceCountChecker whose arguments were assigned by the caller        *)
(***************************************************************************)
MaxSentences == 3
MaxCheckedSentences == 2
MaxDots == 3
MaxSentenceTextLen == 4

\* A single letter, a plain word, a word that is one of _PREFIXES and of
\* _STARTERS, and a word that is one of _SUFFIXES
SentenceWords == {<<"a">>, <<"H", "i">>, <<"M", "r">>, <<"C", "o">>}
Terminators == {".", "!", "?"}

\* The lists of at most n elements of S
Lists(S, n) == UNION {[1..k -> S] : k \in 0..n}

\* At most n sentences, each a word and one terminator, separated by
\* single spaces
PlainSentenceTexts(n) ==
    {str_join(<<" ">>, [i \in 1..Len(l) |-> Append(l[i][1], l[i][2])]) :
        l \in Lists(SentenceWords \X Terminators, n)}

\* A word, a run of 2..MaxDots periods, and what follows it
EllipsisTexts ==
    {w \o [j \in 1..n |-> "."] \o sep \o v :
        w \in SentenceWords \cup {<<>>}, n \in 2..MaxDots,
        sep \in {<<>>, <<" ">>, <<"\n">>}, v \in SentenceWords \cup {<<>>}}

\* Every short text over letters, terminators and separators
SentenceAlphabet == {"a", "A", ".", "?", " ", "\n"}

SentenceInputs ==
    PlainSentenceTexts(MaxSentences) \cup EllipsisTexts
        \cup Strings(SentenceAlphabet, MaxSentenceTextLen)

InitSentences ==
    /\ count = 0
    /\ description = NoDescription
    /\ ret = NoValue
    /\ pc = "call"
    /\ \/ /\ callee = "extract_sentences"
          /\ arguments = <<>>
          /\ arg_value \in SentenceInputs
       \/ /\ callee = "SentenceCountChecker"
          /\ arguments \in [N : 1..MaxSentences, comparison_option : COMPARISON_OPTIONS]
          /\ arg_value \in PlainSentenceTexts(MaxCheckedSentences) \cup EllipsisTexts

\* extract_sentences(text); count records the number of sentences returned
ExtractSentences ==
    /\ pc = "call"
    /\ callee = "extract_sentences"
    /\ ret' = extract_sentences(arg_value)
    /\ count' = Len(ret')
    /\ pc' = "return"
    /\ UNCHANGED <<callee, arguments, description, arg_value>>

\* SentenceCountChecker.check_following; count records len(sentences)
SentenceCountCheck ==
    /\ pc = "call"
    /\ callee = "SentenceCountChecker"
    /\ LET N == arguments.N
           comparison_option == arguments.comparison_option
           sentences == extract_sentences(arg_value)
       IN  /\ count' = Len(sentences)
           /\ ret' = compare_count(Len(sentences), N, comparison_option)
    /\ pc' = "return"
    /\ UNCHANGED <<callee, arguments, description, arg_value>>

NextSentences == ExtractSentences \/ SentenceCountCheck

SpecSentences == InitSentences /\ [][NextSentences]_vars

\* The sentences of a text of sentences separated by single spaces
SentencesOf(text) == IF text = <<>> THEN <<>> ELSE str_split(text, <<" ">>)

\* One or more letters followed by exactly one terminator
IsPlainSentence(p) ==
    /\ Len(p) >= 2
    /\ p[Len(p)] \in Terminators
    /\ \A i \in 1..(Len(p) - 1) : p[i] \in Letters

IsPlainSentenceText(text) ==
    \A k \in 1..Len(SentencesOf(text)) : IsPlainSentence(SentencesOf(text)[k])

\* A sentence whose period the segmenter takes for the period of an
\* initial or of an abbreviation: a single letter, a word that ends with
\* one of _PREFIXES, or a word that is one of _SUFFIXES, followed by "."
HasProtectedPeriod(p) ==
    LET word == SubSeq(p, 1, Len(p) - 1)
    IN  /\ p[Len(p)] = "."
        /\ \/ Len(word) = 1
           \/ \E k \in 1..Len(_PREFIXES) :
                  MatchesAt(word, Len(word) - Len(_PREFIXES[k]) + 1, _PREFIXES[k])
           \/ \E k \in 1..Len(_SUFFIXES) :
                  Len(word) = Len(_SUFFIXES[k]) /\ MatchesAt(word, 1, _SUFFIXES[k])

SentencesReturned ==
    pc = "return" /\ callee \in {"extract_sentences", "SentenceCountChecker"}

IsTerminator(c) == c \in Terminators

\* The text's only terminator characters are the periods of one run of two
\* or more at positions i..j, and a word follows the run.
IsSingleDotRun(text, i, j) ==
    /\ 1 <= i /\ i < j /\ j <= Len(text)
    /\ \A m \in 1..Len(text) : IsTerminator(text[m]) <=> (i <= m /\ m <= j)
    /\ \A m \in i..j : text[m] = "."
    /\ \E m \in (j + 1)..Len(text) : text[m] \notin WHITESPACE

\* C6 as stated: a text whose only terminator characters form one run of
\* two or more periods followed by more words is one sentence.
C6_EllipsisIsNoBoundary ==
    (SentencesReturned
        /\ \E i, j \in 1..Len(arg_value) : IsSingleDotRun(arg_value, i, j))
        => count = 1

\* C6 amended: when whitespace and then more words follow the run, the
\* text is segmented into exactly two sentences: no boundary lies between
\* the periods of the run, and one boundary lies after the run.
C6_EllipsisIsOneBoundary ==
    (SentencesReturned
        /\ \E i, j \in 1..Len(arg_value) :
              /\ IsSingleDotRun(arg_value, i, j)
              /\ arg_value[j + 1] \in WHITESPACE)
        => /\ count = 2
           /\ callee = "extract_sentences" =>
                 \E i, j \in 1..Len(arg_value) :
                     /\ IsSingleDotRun(arg_value, i, j)
                     /\ ret[1] = strip(SubSeq(arg_value, 1, j))
                     /\ ret[2] = strip(SubSeq(arg_value, j + 1, Len(arg_value)))

\* "Hi... Co" was segmented into "Hi..." and "Co".
C6_Witness ==
    /\ pc = "return"
    /\ callee = "extract_sentences"
    /\ arg_value = <<"H", "i", ".", ".", ".", " ", "C", "o">>
    /\ ret = << <<"H", "i", ".", ".", ".">>, <<"C", "o">> >>

(***************************************************************************)
(* utils.py: count_highlighted_sections                                    *)
(***************************************************************************)
\* A findall whose matches may overlap: the scan goes on one character after
\* the opening of a match, so a closing run opens the next match.
RECURSIVE findall_starred_overlapping(_, _, _)
findall_starred_overlapping(text, n, i) ==
    LET delimiter == [j \in 1..n |-> "*"]
        closings == {j \in (i + n)..Len(text) : StartsAt(text, delimiter, j)}
        nearest == CHOOSE j \in closings : \A k \in closings : j <= k
    IN  IF i > Len(text) THEN <<>>
        ELSE IF StartsAt(text, delimiter, i) /\ closings # {}
        THEN <<SubSeq(text, i, nearest + n - 1)>>
                 \o findall_starred_overlapping(text, n, i + 1)
        ELSE findall_starred_overlapping(text, n, i + 1)

\* re.findall of n asterisks, ".*?" and n asterisks under re.DOTALL, from
\* position i on: a match opens at the first position where n asterisks
\* stand and a closing run of n asterisks follows, closes at the nearest
\* such run, and the scan goes on after it.
RECURSIVE findall_starred(_, _, _)
findall_starred(text, n, i) ==
    LET delimiter == [j \in 1..n |-> "*"]
        closings == {j \in (i + n)..Len(text) : StartsAt(text, delimiter, j)}
        nearest == CHOOSE j \in closings : \A k \in closings : j <= k
    IN  IF i > Len(text) THEN <<>>
        ELSE IF StartsAt(text, delimiter, i) /\ closings # {}
        THEN <<SubSeq(text, i, nearest + n - 1)>>
                 \o findall_starred(text, n, nearest + n)
        ELSE findall_starred(text, n, i + 1)

\* for highlight in double_highlights: temp_text = temp_text.replace(highlight, "")
RECURSIVE remove_highlights(_, _)
remove_highlights(temp_text, highlights) ==
    IF highlights = <<>> THEN temp_text
    ELSE remove_highlights(str_replace(temp_text, Head(highlights), <<>>),
                           Tail(highlights))

\* The number of highlights whose content, without the n asterisks at both
\* ends, is not empty after strip()
count_valid_highlights(highlights, n) ==
    Cardinality({k \in 1..Len(highlights) :
        strip(SubSeq(highlights[k], n + 1, Len(highlights[k]) - n)) # <<>>})

\* count_highlighted_sections(arg_value)
count_highlighted_sections(text) ==
    LET Singles(temp_text) == findall_starred(temp_text, 1, 1)
        Counted(double_highlights) ==
            count_valid_highlights(double_highlights, 2)
                + count_valid_highlights(
                      TheElement({Singles(temp_text) :
                          temp_text \in {remove_highlights(text, double_highlights)}}),
                      1)
    IN  TheElement({Counted(double_highlights) :
            double_highlights \in {findall_starred(text, 2, 1)}})

(***************************************************************************)
(* SpecHighlight: one call of count_highlighted_sections                   *)
(***************************************************************************)
MaxHighlightTextLen == 6
MaxStarredTextLen == 13

\* Short texts of asterisks, a letter and a space; longer texts of asterisks
\* and a letter; and the text "*a*b* *c*"
HighlightInputs ==
    Strings({"*", "a", " "}, MaxHighlightTextLen)
        \cup Strings({"*", "a"}, MaxStarredTextLen)
        \cup {<<"*", "a", "*", "b", "*", " ", "*", "c", "*">>}

InitHighlight ==
    /\ callee = "count_highlighted_sections"
    /\ arguments = <<>>
    /\ arg_value \in HighlightInputs
    /\ count = 0
    /\ description = NoDescription
    /\ ret = NoValue
    /\ pc = "call"

\* count_highlighted_sections(arg_value); count and ret record num_highlights
CountHighlightedSections ==
    /\ pc = "call"
    /\ callee = "count_highlighted_sections"
    /\ count' = count_highlighted_sections(arg_value)
    /\ ret' = count'
    /\ pc' = "return"
    /\ UNCHANGED <<callee, arguments, description, arg_value>>

SpecHighlight == InitHighlight /\ [][CountHighlightedSections]_vars

HighlightsCounted == callee = "count_highlighted_sections" /\ pc = "return"

\* The text without its '**...**' matches: the scan of findall_starred for
\* two asterisks, keeping the characters outside the matches
RECURSIVE DoubleMatchesRemoved(_, _)
DoubleMatchesRemoved(text, i) ==
    LET closings == {j \in (i + 2)..Len(text) : StartsAt(text, <<"*", "*">>, j)}
        nearest == CHOOSE j \in closings : \A k \in closings : j <= k
    IN  IF i > Len(text) THEN <<>>
        ELSE IF StartsAt(text, <<"*", "*">>, i) /\ closings # {}
        THEN DoubleMatchesRemoved(text, nearest + 2)
        ELSE <<text[i]>> \o DoubleMatchesRemoved(text, i + 1)

\* D + S of a text: the valid '**...**' matches of the text plus the valid
\* '*...*' matches of the text without its '**...**' matches
DoublesPlusSingles(text) ==
    count_valid_highlights(findall_starred(text, 2, 1), 2)
        + count_valid_highlights(
              findall_starred(DoubleMatchesRemoved(text, 1), 1, 1), 1)

\* C7: count_highlighted_sections(text) equals D + S, D the number of valid
\* non-greedy '**...**' matches of the text and S the number of valid
\* non-greedy '*...*' matches of the text from which the double-delimited
\* matches were removed; "*a*b* *c*" counts exactly 1.
C7_CountIsDoublesPlusSingles ==
    HighlightsCounted =>
        /\ count = DoublesPlusSingles(arg_value)
        /\ arg_value = <<"*", "a", "*", "b", "*", " ", "*", "c", "*">> => count = 1

\* A text on which the replacement of a double-delimited match removes
\* another occurrence of the matched text
C7_Witness ==
    /\ HighlightsCounted
    /\ arg_value = <<"*", "*", "a", "*", "*", "*", "a", "*", "*", "*", "a", "*", "*">>
    /\ count = 3

(***************************************************************************)
(* checkers.py: SpacesInBetweenChecker                                     *)
(***************************************************************************)
\* parts = arg_value.split(SEPARATOR)
SpacesInBetween_parts(args, value) ==
    str_split(value, [j \in 1..args.N |-> " "])

\* reconstructed = SEPARATOR.join(parts)
SpacesInBetween_reconstructed(args, value) ==
    str_join([j \in 1..args.N |-> " "], SpacesInBetween_parts(args, value))

\* A check that relies on the reconstruction alone and does not look for a
\* space left in a part
SpacesInBetween_by_reconstruction(args, value) ==
    LET parts == SpacesInBetween_parts(args, value)
    IN  IF value # strip(value) THEN FALSE
        ELSE IF ~Contains(value, <<" ">>) THEN TRUE
        ELSE IF Len(parts) < 2 THEN FALSE
        ELSE IF \E k \in 1..Len(parts) : parts[k] = <<>> THEN FALSE
        ELSE SpacesInBetween_reconstructed(args, value) = value

\* SpacesInBetweenChecker.check_following(arg_value)
SpacesInBetween_check_following(args, value) ==
    LET N == args.N
        SEPARATOR == [j \in 1..N |-> " "]
        parts == str_split(value, SEPARATOR)
        reconstructed == str_join(SEPARATOR, parts)
    IN  IF value # strip(value) THEN FALSE
        ELSE IF ~Contains(value, <<" ">>) THEN TRUE
        ELSE IF Len(parts) < 2 THEN FALSE
        ELSE IF \E k \in 1..Len(parts) : parts[k] = <<>> THEN FALSE
        ELSE IF reconstructed # value THEN FALSE
        ELSE IF \E k \in 1..Len(parts) : Contains(parts[k], <<" ">>) THEN FALSE
        ELSE TRUE

(***************************************************************************)
(* SpecSpaces: one check of a SpacesInBetweenChecker whose arguments were  *)
(* assigned by the caller                                                  *)
(***************************************************************************)
MaxSpaces == 5
MaxSpacedTextLen == 8
SpacedAlphabet == {"a", " ", "\t"}

InitSpaces ==
    /\ callee = "SpacesInBetweenChecker"
    /\ arguments \in [N : 1..MaxSpaces]
    /\ arg_value \in Strings(SpacedAlphabet, MaxSpacedTextLen)
    /\ count = 0
    /\ description = NoDescription
    /\ ret = NoValue
    /\ pc = "call"

SpacesInBetweenCheck ==
    /\ pc = "call"
    /\ callee = "SpacesInBetweenChecker"
    /\ ret' = SpacesInBetween_check_following(arguments, arg_value)
    /\ pc' = "return"
    /\ UNCHANGED <<callee, arguments, description, arg_value, count>>

SpecSpaces == InitSpaces /\ [][SpacesInBetweenCheck]_vars

SpacesChecked == callee = "SpacesInBetweenChecker" /\ pc = "return"

\* The words of the value joined by exactly n spaces
WordsJoinedBySpaces(value, n) == str_join([j \in 1..n |-> " "], split(value))

\* C8: for every N >= 1 the check returns true exactly when the value has
\* no leading or trailing space and every separator between two consecutive
\* words is exactly N spaces, i.e. when the value is its words joined by N
\* spaces; a single word with no spaces passes for every N.
C8_TrueIffWordsSeparatedByNSpaces ==
    SpacesChecked =>
        (ret = TRUE <=> arg_value = WordsJoinedBySpaces(arg_value, arguments.N))

\* Two words separated by a tab are accepted
C8_Witness ==
    /\ SpacesChecked
    /\ arg_value = <<"a", "\t", "a">>
    /\ ret = TRUE

(***************************************************************************)
(* checkers.py: CyrillicGreekChecker.  A character is its code point, so   *)
(* that the ranges of the patterns are the ranges of the code.             *)
(***************************************************************************)
\* U+0400-U+04FF, U+0500-U+052F, U+2DE0-U+2DFF, U+A640-U+A69F
CYRILLIC_RANGES ==
    {<<1024, 1279>>, <<1280, 1327>>, <<11744, 11775>>, <<42560, 42655>>}
\* U+0370-U+03FF, U+1F00-U+1FFF
GREEK_RANGES == {<<880, 1023>>, <<7936, 8191>>}

InRanges(c, ranges) == \E r \in ranges : r[1] <= c /\ c <= r[2]

\* \s of a str pattern, for the characters below U+3000
IsUnicodeSpace(c) ==
    c \in (9..13) \cup (28..32) \cup {133, 160, 5760} \cup (8192..8202)
              \cup {8232, 8233, 8239, 8287}

\* \w of a str pattern: the underscore and the alphanumeric characters,
\* among them the Latin letters, the digits 0-9, the letters U+03B1-U+03C9,
\* U+0400-U+0481, U+048A-U+052F, U+1F00-U+1F15, U+4E00-U+9FFF and
\* U+A640-U+A66D
IsUnicodeWord(c) ==
    \/ c = 95
    \/ InRanges(c, {<<48, 57>>, <<65, 90>>, <<97, 122>>, <<945, 969>>,
                    <<1024, 1153>>, <<1162, 1327>>, <<7936, 7957>>,
                    <<19968, 40959>>, <<42560, 42605>>})

\* CyrillicGreekChecker.check_following: the whole value matches
\* [<ranges of the script>0-9\s\W]*
CyrillicGreek_check_following(args, value) ==
    LET ranges == IF args.script = "cyrillic" THEN CYRILLIC_RANGES ELSE GREEK_RANGES
    IN  \A i \in 1..Len(value) :
            \/ InRanges(value[i], ranges)
            \/ value[i] \in 48..57
            \/ IsUnicodeSpace(value[i])
            \/ ~IsUnicodeWord(value[i])

(***************************************************************************)
(* SpecScript: one check of a CyrillicGreekChecker whose arguments were    *)
(* assigned by the caller                                                  *)
(***************************************************************************)
MaxScriptTextLen == 3

\* "\n", " ", "!", "1", "_", "a", and the letters U+03B1 (Greek), U+041F,
\* U+0500 (Cyrillic), U+1F00 (Greek), U+4E2D (CJK) and U+A640 (Cyrillic)
ScriptAlphabet == {10, 32, 33, 49, 95, 97, 945, 1055, 1280, 7936, 20013, 42560}

InitScript ==
    /\ callee = "CyrillicGreekChecker"
    /\ arguments \in [script : {"cyrillic", "greek"}]
    /\ arg_value \in Strings(ScriptAlphabet, MaxScriptTextLen)
    /\ count = 0
    /\ description = NoDescription
    /\ ret = NoValue
    /\ pc = "call"

CyrillicGreekCheck ==
    /\ pc = "call"
    /\ callee = "CyrillicGreekChecker"
    /\ ret' = CyrillicGreek_check_following(arguments, arg_value)
    /\ pc' = "return"
    /\ UNCHANGED <<callee, arguments, description, arg_value, count>>

SpecScript == InitScript /\ [][CyrillicGreekCheck]_vars

ScriptChecked == callee = "CyrillicGreekChecker" /\ pc = "return"

\* Whitespace, the digits 0-9, the ASCII punctuation characters, and the
\* characters of the block set of the script
IsWhitespaceChar(c) == IsUnicodeSpace(c)
IsDigitChar(c) == c \in 48..57
IsPunctuationChar(c) == InRanges(c, {<<33, 47>>, <<58, 64>>, <<91, 96>>, <<123, 126>>})
InBlockSet(c, script) ==
    InRanges(c, IF script = "cyrillic" THEN CYRILLIC_RANGES ELSE GREEK_RANGES)

\* C9: the check returns true exactly when every character of the value
\* that is not whitespace, not a digit and not a punctuation character lies
\* in the block set of the script; the empty string passes.
C9_TrueIffLettersInBlockSet ==
    ScriptChecked =>
        /\ ret = TRUE <=>
               \A i \in 1..Len(arg_value) :
                   \/ IsWhitespaceChar(arg_value[i])
                   \/ IsDigitChar(arg_value[i])
                   \/ IsPunctuationChar(arg_value[i])
                   \/ InBlockSet(arg_value[i], arguments.script)
        /\ arg_value = <<>> => ret = TRUE

\* Two Cyrillic letters joined by an underscore are rejected
C9_Witness ==
    /\ ScriptChecked
    /\ arguments.script = "cyrillic"
    /\ arg_value = <<1055, 95, 1055>>
    /\ ret = FALSE

(***************************************************************************)
(* checkers.py: JsonFormatChecker.  json.loads is modelled by what its     *)
(* decoder accepts: one value between optional whitespace.                 *)
(***************************************************************************)
\* str.removeprefix(prefix) and str.removesuffix(suffix)
removeprefix(s, prefix) ==
    TheElement({IF StartsAt(t, prefix, 1)
                THEN SubSeq(t, Len(prefix) + 1, Len(t)) ELSE t : t \in {s}})
removesuffix(s, suffix) ==
    TheElement({IF Len(suffix) <= Len(t) /\ StartsAt(t, suffix, Len(t) - Len(suffix) + 1)
                THEN SubSeq(t, 1, Len(t) - Len(suffix)) ELSE t : t \in {s}})

\* The number of consecutive digits from position i on
RECURSIVE DigitRun(_, _)
DigitRun(s, i) == IF i <= Len(s) /\ s[i] \in Digits THEN 1 + DigitRun(s, i + 1) ELSE 0

\* json.scanner NUMBER_RE, (-?(?:0|[1-9]\d*))(\.\d+)?([eE][-+]?\d+)?: the
\* position after the number matched at i, 0 when none is
json_number_end(s, i) ==
    LET At(j) == IF j <= Len(s) THEN s[j] ELSE ""
        FracPart(b) == IF At(b) = "." /\ At(b + 1) \in Digits
                   THEN b + 1 + DigitRun(s, b + 1) ELSE b
        ExpDigits(c) == IF At(c) \in {"-", "+"} THEN c + 1 ELSE c
        ExpPart(c) == IF At(c) \in {"e", "E"} /\ At(ExpDigits(c + 1)) \in Digits
                  THEN ExpDigits(c + 1) + DigitRun(s, ExpDigits(c + 1)) ELSE c
        IntPart(a) == IF At(a) = "0" THEN a + 1
                  ELSE IF At(a) \in Digits THEN a + DigitRun(s, a)
                  ELSE 0
        Rest(b) == IF b = 0 THEN 0 ELSE TheElement({ExpPart(c) : c \in {FracPart(b)}})
    IN  TheElement({Rest(b) : b \in {IntPart(IF At(i) = "-" THEN i + 1 ELSE i)}})

\* json.decoder.scanstring in strict mode, from the position i after the
\* opening quotation mark: the position after the closing one, 0 when the
\* string is not terminated, holds a control character or a bad escape
RECURSIVE json_string_end(_, _)
json_string_end(s, i) ==
    LET Hex == Digits \cup {"a", "b", "c", "d", "e", "f", "A", "B", "C", "D", "E", "F"}
    IN  IF i > Len(s) THEN 0
        ELSE IF s[i] = "\"" THEN i + 1
        ELSE IF s[i] \in {"\t", "\n", "\r"} THEN 0
        ELSE IF s[i] # "\\" THEN json_string_end(s, i + 1)
        ELSE IF i + 1 > Len(s) THEN 0
        ELSE IF s[i + 1] \in {"\"", "\\", "/", "b", "f", "n", "r", "t"}
        THEN json_string_end(s, i + 2)
        ELSE IF /\ s[i + 1] = "u"
                /\ i + 5 <= Len(s)
                /\ \A k \in 2..5 : s[i + k] \in Hex
        THEN json_string_end(s, i + 6)
        ELSE 0

\* json.scanner: the position after the string, number or constant that
\* starts at i, 0 when none does
json_scalar_end(s, i) ==
    LET Literals == {<<"n", "u", "l", "l">>, <<"t", "r", "u", "e">>,
                     <<"f", "a", "l", "s", "e">>, <<"N", "a", "N">>,
                     <<"I", "n", "f", "i", "n", "i", "t", "y">>,
                     <<"-", "I", "n", "f", "i", "n", "i", "t", "y">>}
        matched == {w \in Literals : StartsAt(s, w, i)}
    IN  IF s[i] = "\"" THEN json_string_end(s, i + 1)
        ELSE IF json_number_end(s, i) # 0 THEN json_number_end(s, i)
        ELSE IF matched # {} THEN i + Len(CHOOSE w \in matched : TRUE)
        ELSE 0

\* json.loads(value) raises no ValueError: the decoder reads one value and
\* only whitespace around it.  `mode` is what the decoder expects at i and
\* `stack` the objects and arrays that are open there.
RECURSIVE json_scan(_, _, _, _)
RECURSIVE json_step(_, _, _, _)
json_step(s, i, mode, stack) ==
    LET top == IF stack = <<>> THEN "" ELSE stack[Len(stack)]
        pop == SubSeq(stack, 1, Len(stack) - 1)
        Value ==
            IF s[i] = "{" THEN json_scan(s, i + 1, "key or }", Append(stack, "{"))
            ELSE IF s[i] = "[" THEN json_scan(s, i + 1, "value or ]", Append(stack, "["))
            ELSE /\ json_scalar_end(s, i) # 0
                 /\ json_scan(s, json_scalar_end(s, i), "end of value", stack)
        Key ==
            /\ s[i] = "\""
            /\ json_string_end(s, i + 1) # 0
            /\ json_scan(s, json_string_end(s, i + 1), ":", stack)
    IN  IF i > Len(s) THEN mode = "end of value" /\ stack = <<>>
        ELSE IF s[i] \in WHITESPACE THEN json_scan(s, i + 1, mode, stack)
        ELSE CASE mode = "value" -> Value
               [] mode = "value or ]" ->
                      IF s[i] = "]" THEN json_scan(s, i + 1, "end of value", pop)
                      ELSE Value
               [] mode = "key or }" ->
                      IF s[i] = "}" THEN json_scan(s, i + 1, "end of value", pop)
                      ELSE Key
               [] mode = "key" -> Key
               [] mode = ":" -> s[i] = ":" /\ json_scan(s, i + 1, "value", stack)
               [] mode = "end of value" ->
                      IF top = "{" /\ s[i] = "," THEN json_scan(s, i + 1, "key", stack)
                      ELSE IF top = "{" /\ s[i] = "}"
                      THEN json_scan(s, i + 1, "end of value", pop)
                      ELSE IF top = "[" /\ s[i] = "," THEN json_scan(s, i + 1, "value", stack)
                      ELSE IF top = "[" /\ s[i] = "]"
                      THEN json_scan(s, i + 1, "end of value", pop)
                      ELSE FALSE
json_scan(s, i, mode, stack) ==
    TheElement({json_step(s, p[1], mode, p[2]) : p \in {<<i, stack>>}})
json_loads_ok(value) == TheElement({json_scan(s, 1, "value", <<>>) : s \in {value}})

FENCE == <<BACKTICK, BACKTICK, BACKTICK>>

\* JsonFormatChecker.check_following(arg_value)
JsonFormat_check_following(text) ==
    LET value ==
            strip(removesuffix(removeprefix(removeprefix(removeprefix(removeprefix(
                strip(text),
                FENCE \o <<"j", "s", "o", "n">>),
                FENCE \o <<"J", "s", "o", "n">>),
                FENCE \o <<"J", "S", "O", "N">>),
                FENCE),
                FENCE))
    IN  json_loads_ok(value)

(***************************************************************************)
(* SpecJson: one check of a JsonFormatChecker                              *)
(***************************************************************************)
MaxJsonDepth == 2
MaxJsonTextLen == 3

\* JSON texts nested at most `depth` deep, with `ws` after ":" and ","
RECURSIVE JsonValues(_, _)
JsonValues(depth, ws) ==
    LET Scalars == {<<"1">>, <<"\"", "a", "\"">>}
        Inner == JsonValues(depth - 1, ws)
        Member(v) == <<"\"", "a", "\"", ":">> \o ws \o v
    IN  IF depth = 0 THEN Scalars
        ELSE Scalars
                 \cup {<<"[", "]">>, <<"{", "}">>}
                 \cup {<<"[">> \o v \o <<"]">> : v \in Inner}
                 \cup {<<"[">> \o v \o <<",">> \o ws \o w \o <<"]">> : v, w \in Scalars}
                 \cup {<<"{">> \o Member(v) \o <<"}">> : v \in Inner}
                 \cup {<<"{">> \o Member(v) \o <<",">> \o ws \o Member(w) \o <<"}">> :
                           v, w \in Scalars}

JsonObjectsAndArrays ==
    {v \in JsonValues(MaxJsonDepth, <<>>) \cup JsonValues(MaxJsonDepth, <<" ">>) :
        v[1] \in {"{", "["}}

\* An object or array cut before its end
TruncatedJson ==
    UNION {{SubSeq(v, 1, k) : k \in 0..(Len(v) - 1)} : v \in JsonObjectsAndArrays}
        \ JsonObjectsAndArrays

\* The tag of the opening fence in some letter cases
FenceTags ==
    {<<"j", "s", "o", "n">>, <<"J", "s", "o", "n">>, <<"J", "S", "O", "N">>,
     <<"j", "S", "O", "N">>}

\* Values, objects, arrays and truncated ones, bare or between an opening
\* fence (with or without a tag) and a closing fence, with or without
\* spaces around; and every short text of JSON punctuation
JsonInputs ==
    {pad \o open \o v \o close \o pad :
        pad \in {<<>>, <<" ">>},
        open \in {<<>>, FENCE} \cup {FENCE \o tag \o <<"\n">> : tag \in FenceTags},
        close \in {<<>>, <<"\n">> \o FENCE},
        v \in {<<"1">>, <<"\"", "a", "\"">>} \cup JsonObjectsAndArrays \cup TruncatedJson}
    \cup Strings({"{", "}", "[", "]", ":", ",", "\"", "1", " "}, MaxJsonTextLen)

InitJson ==
    /\ callee = "JsonFormatChecker"
    /\ arguments = <<>>
    /\ arg_value \in JsonInputs
    /\ count = 0
    /\ description = NoDescription
    /\ ret = NoValue
    /\ pc = "call"

JsonFormatCheck ==
    /\ pc = "call"
    /\ callee = "JsonFormatChecker"
    /\ ret' = JsonFormat_check_following(arg_value)
    /\ pc' = "return"
    /\ UNCHANGED <<callee, arguments, description, arg_value, count>>

SpecJson == InitJson /\ [][JsonFormatCheck]_vars

JsonChecked == callee = "JsonFormatChecker" /\ pc = "return"

\* An object or array between a fence opened with the tag and a closing fence
FencedJson(tags) ==
    {FENCE \o tag \o <<"\n">> \o v \o <<"\n">> \o FENCE :
        tag \in tags, v \in JsonObjectsAndArrays}

\* C10: a valid JSON object or array wrapped in a fence that opens with the
\* tag 'json' in any letter case is accepted, and truncated JSON is rejected.
C10_FencedJsonInAnyCaseAccepted ==
    JsonChecked =>
        /\ arg_value \in FencedJson(FenceTags) => ret = TRUE
        /\ arg_value \in TruncatedJson => ret = FALSE

\* An object fenced with the tag jSON is rejected
C10_Witness ==
    /\ JsonChecked
    /\ arg_value = FENCE \o <<"j", "S", "O", "N", "\n">>
                       \o <<"{", "\"", "a", "\"", ":", "1", "}">> \o <<"\n">> \o FENCE
    /\ ret = FALSE

(***************************************************************************)
(* checkers.py: PythonListFormatChecker.  ast.literal_eval is modelled by  *)
(* what it does with a text of brackets, braces, colons, commas, quoted    *)
(* strings, decimal digits, names and whitespace: it parses an expression  *)
(* list, then converts the nodes in order.  Of a parsed expression the     *)
(* model keeps where it ends (end = 0: no expression, a SyntaxError), the  *)
(* first exception its conversion raises (st), the kind of its value and   *)
(* whether that value is hashable.                                         *)
(***************************************************************************)
PyNode(end, st, kind, hashable) ==
    [end |-> end, st |-> st, kind |-> kind, hashable |-> hashable]
PySyntaxError == PyNode(0, "SyntaxError", "", FALSE)

\* The first exception raised of two conversions made in this order
PyFirst(st1, st2) == IF st1 # "ok" THEN st1 ELSE st2

\* The position of the next token from i on; a line break is whitespace
\* only inside brackets
RECURSIVE py_skip(_, _, _)
py_skip(s, i, nested) ==
    IF i <= Len(s) /\ (s[i] \in {" ", "\t"} \/ (nested /\ s[i] \in {"\n", "\r"}))
    THEN py_skip(s, i + 1, nested) ELSE i

\* The position after the quotation marks that close the string opened
\* before i with n (1 or 3) marks q, 0 when the string is not terminated
RECURSIVE py_quote_end(_, _, _, _)
py_quote_end(s, i, q, n) ==
    IF i > Len(s) THEN 0
    ELSE IF s[i] = "\\" THEN py_quote_end(s, i + 2, q, n)
    ELSE IF n = 1 /\ s[i] \in {"\n", "\r"} THEN 0
    ELSE IF StartsAt(s, [k \in 1..n |-> q], i) THEN i + n
    ELSE py_quote_end(s, i + 1, q, n)

\* The position after the string literal that starts at i
py_string_end(s, i) ==
    IF StartsAt(s, <<s[i], s[i], s[i]>>, i)
    THEN py_quote_end(s, i + 3, s[i], 3)
    ELSE py_quote_end(s, i + 1, s[i], 1)

\* The number of name characters from i on
RECURSIVE NameRun(_, _)
NameRun(s, i) ==
    IF i <= Len(s) /\ s[i] \in Letters \cup Digits \cup {"_"}
    THEN 1 + NameRun(s, i + 1) ELSE 0

RECURSIVE py_expr(_, _, _)
RECURSIVE py_elements(_, _, _, _, _)
RECURSIVE py_slices(_, _, _)
RECURSIVE py_postfix(_, _, _)
RECURSIVE py_strings(_, _, _)
RECURSIVE py_testlist(_, _)

\* The string literals that follow the one ending before e are joined to it
py_strings(s, e, nested) ==
    LET More(e2) == IF e2 = 0 THEN PySyntaxError ELSE py_strings(s, e2, nested)
        Next(j) == IF j <= Len(s) /\ s[j] \in {"'", "\""}
                   THEN TheElement({More(e2) : e2 \in {py_string_end(s, j)}})
                   ELSE PyNode(e, "ok", "str", TRUE)
    IN  TheElement({Next(j) : j \in {py_skip(s, e, nested)}})

\* The atom that starts at i: a string, a decimal integer, a name, a list
\* display, or a set or dict display.  A name other than True, False and
\* None is a node literal_eval refuses (a malformed node, ValueError).
py_primary(s, i, nested) ==
    LET Str(e) == IF e = 0 THEN PySyntaxError ELSE py_strings(s, e, nested)
        name == SubSeq(s, i, i + NameRun(s, i) - 1)
        Empty == [st |-> "ok", allstr |-> TRUE]
    IN  IF i > Len(s) THEN PySyntaxError
        ELSE IF s[i] \in {"'", "\""}
        THEN TheElement({Str(e) : e \in {py_string_end(s, i)}})
        ELSE IF s[i] \in Digits
        THEN IF /\ NameRun(s, i) = DigitRun(s, i)
                /\ (s[i] = "0" => \A k \in i..(i + DigitRun(s, i) - 1) : s[k] = "0")
             THEN PyNode(i + DigitRun(s, i), "ok", "int", TRUE)
             ELSE PySyntaxError
        ELSE IF s[i] \in Letters \cup {"_"}
        THEN IF name \in {<<"T", "r", "u", "e">>, <<"F", "a", "l", "s", "e">>,
                          <<"N", "o", "n", "e">>}
             THEN PyNode(i + Len(name), "ok", "constant", TRUE)
             ELSE PyNode(i + NameRun(s, i), "ValueError", "name", FALSE)
        ELSE IF s[i] = "[" THEN py_elements(s, i + 1, "]", "list", Empty)
        ELSE IF s[i] = "{" THEN py_elements(s, i + 1, "}", "{", Empty)
        ELSE PySyntaxError

\* An atom and the subscripts that follow it
py_expr(s, i, nested) ==
    LET Post(p) == IF p.end = 0 THEN PySyntaxError ELSE py_postfix(s, p, nested)
    IN  TheElement({Post(p) : p \in {py_primary(s, i, nested)}})

\* A subscript is a node literal_eval refuses before it converts the
\* subscripted expression
py_postfix(s, p, nested) ==
    LET Sub(e) == IF e = 0 THEN PySyntaxError
                  ELSE py_postfix(s, PyNode(e, "ValueError", "subscript", FALSE), nested)
        At(node, j) ==
            IF j <= Len(s) /\ s[j] = "["
            THEN TheElement({Sub(e) : e \in {py_slices(s, j + 1, "start")}})
            ELSE node
    IN  TheElement({At(node, py_skip(s, node.end, nested)) : node \in {p}})

\* The elements of a display from i on, up to the bracket `close`.  form is
\* "list", "set", "dict" or, before the first element of a display in
\* braces, "{".  acc holds the first exception raised so far and whether
\* all the elements so far are strings.  list(map(_convert, elts)) converts
\* the elements in order; set(...) converts an element and then hashes it;
\* dict(zip(...)) converts a key and its value and then hashes the key.
py_elements(s, i, close, form, acc) ==
    LET Kind(f, a) == IF f = "list" THEN (IF a.allstr THEN "list of str" ELSE "list")
                      ELSE IF f = "set" THEN "set" ELSE "dict"
        Closed(j, f, a) == PyNode(j + 1, a.st, Kind(f, a), FALSE)
        After(j, f, a) ==
            IF j > Len(s) THEN PySyntaxError
            ELSE IF s[j] = "," THEN py_elements(s, j + 1, close, f, a)
            ELSE IF s[j] = close THEN Closed(j, f, a)
            ELSE PySyntaxError
        Hash(k) == IF k.hashable THEN "ok" ELSE "TypeError"
        Item(a, k) ==
            [st |-> PyFirst(a.st, PyFirst(k.st, IF form = "list" THEN "ok" ELSE Hash(k))),
             allstr |-> a.allstr /\ k.kind = "str"]
        Pair(a, k, v) ==
            [st |-> PyFirst(a.st, PyFirst(k.st, PyFirst(v.st, Hash(k)))),
             allstr |-> FALSE]
        Value(a, k, v) ==
            IF v.end = 0 THEN PySyntaxError
            ELSE TheElement({After(p[1], "dict", p[2]) :
                     p \in {<<py_skip(s, v.end, TRUE), Pair(a, k, v)>>}})
        Colon(a, k, j) ==
            IF j <= Len(s) /\ s[j] = ":" /\ form \in {"{", "dict"}
            THEN TheElement({Value(a, k, v) :
                     v \in {py_expr(s, py_skip(s, j + 1, TRUE), TRUE)}})
            ELSE IF form = "dict" THEN PySyntaxError
            ELSE TheElement({After(j, IF form = "{" THEN "set" ELSE form, b) :
                     b \in {Item(a, k)}})
        Element(a, k) ==
            IF k.end = 0 THEN PySyntaxError
            ELSE TheElement({Colon(a, k, j) : j \in {py_skip(s, k.end, TRUE)}})
        Start(a, j) ==
            IF j > Len(s) THEN PySyntaxError
            ELSE IF s[j] = close THEN Closed(j, form, a)
            ELSE TheElement({Element(a, k) : k \in {py_expr(s, j, TRUE)}})
    IN  TheElement({Start(p[1], p[2]) : p \in {<<acc, py_skip(s, i, TRUE)>>}})

\* The slices of a subscript from i on: the position after its "]", 0 when
\* they are no slices.  phase is the part of a slice that is read.
py_slices(s, i, phase) ==
    LET Expr(j, next) ==
            LET Go(k) == IF k.end = 0 THEN 0 ELSE py_slices(s, k.end, next)
            IN  TheElement({Go(k) : k \in {py_expr(s, j, TRUE)}})
        At(j) ==
            IF j > Len(s) THEN 0
            ELSE IF s[j] = "]" THEN (IF phase = "start" THEN 0 ELSE j + 1)
            ELSE IF s[j] = ","
            THEN (IF phase \in {"start", "start or ]"} THEN 0
                  ELSE py_slices(s, j + 1, "start or ]"))
            ELSE IF s[j] = ":"
            THEN (IF phase \in {"start", "start or ]", "after lower"}
                  THEN py_slices(s, j + 1, "upper")
                  ELSE IF phase \in {"upper", "after upper"}
                  THEN py_slices(s, j + 1, "step")
                  ELSE 0)
            ELSE IF phase \in {"start", "start or ]"} THEN Expr(j, "after lower")
            ELSE IF phase = "upper" THEN Expr(j, "after upper")
            ELSE IF phase = "step" THEN Expr(j, "after step")
            ELSE 0
    IN  TheElement({At(j) : j \in {py_skip(s, i, TRUE)}})

\* What follows the expression `node` at the top level: nothing, or a comma
\* and the further elements of a tuple
py_testlist(s, node) ==
    LET Tuple(e, st) == PyNode(e, st, "tuple", FALSE)
        More(n, k) == IF k.end = 0 THEN PySyntaxError
                      ELSE py_testlist(s, Tuple(k.end, PyFirst(n.st, k.st)))
        Comma(n, m) == IF m > Len(s) THEN Tuple(m, n.st)
                       ELSE TheElement({More(n, k) : k \in {py_expr(s, m, FALSE)}})
        At(n, j) ==
            IF j > Len(s) THEN n
            ELSE IF s[j] = ","
            THEN TheElement({Comma(n, m) : m \in {py_skip(s, j + 1, FALSE)}})
            ELSE PySyntaxError
        Rest(n) == TheElement({At(n, j) : j \in {py_skip(s, n.end, FALSE)}})
    IN  TheElement({Rest(n) : n \in {node}})

\* ast.literal_eval(value): the exception it raises, or the kind of the
\* value it returns
literal_eval(value) ==
    LET Result(r) == IF r.end = 0 THEN "SyntaxError"
                     ELSE IF r.st # "ok" THEN r.st
                     ELSE r.kind
        Rest(s, k) == IF k.end = 0 THEN PySyntaxError ELSE py_testlist(s, k)
        Parse(s) == TheElement({Rest(s, k) : k \in {py_expr(s, py_skip(s, 1, FALSE), FALSE)}})
    IN  TheElement({Result(r) : r \in {TheElement({Parse(s) : s \in {value}})}})

\* value[len(prefix):].strip() of the first prefix the value starts with
strip_opening_fence(value) ==
    LET Cut(prefix) == strip(SubSeq(value, Len(prefix) + 1, Len(value)))
    IN  IF StartsAt(value, FENCE \o <<"p", "y", "t", "h", "o", "n">>, 1)
        THEN Cut(FENCE \o <<"p", "y", "t", "h", "o", "n">>)
        ELSE IF StartsAt(value, FENCE \o <<"P", "y", "t", "h", "o", "n">>, 1)
        THEN Cut(FENCE \o <<"P", "y", "t", "h", "o", "n">>)
        ELSE IF StartsAt(value, FENCE \o <<"P", "Y", "T", "H", "O", "N">>, 1)
        THEN Cut(FENCE \o <<"P", "Y", "T", "H", "O", "N">>)
        ELSE IF StartsAt(value, FENCE, 1) THEN Cut(FENCE)
        ELSE value

\* PythonListFormatChecker.check_following(arg_value): the exception it
\* lets through ("none" when it returns) and the boolean it returns
PythonListFormat_check_following(text) ==
    LET Closing(v) == IF Len(v) >= 3 /\ StartsAt(v, FENCE, Len(v) - 2)
                      THEN strip(SubSeq(v, 1, Len(v) - 3)) ELSE v
        Opening(v) == TheElement({Closing(w) : w \in {strip_opening_fence(v)}})
        Checked(parsed) ==
            IF parsed \in {"ValueError", "SyntaxError"}
            THEN [raises |-> "none", returns |-> FALSE]
            ELSE IF parsed = "TypeError"
            THEN [raises |-> "TypeError", returns |-> FALSE]
            ELSE [raises |-> "none", returns |-> parsed = "list of str"]
        Evaluated(value) == TheElement({Checked(parsed) : parsed \in {literal_eval(value)}})
    IN  TheElement({Evaluated(value) :
            value \in {TheElement({Opening(v) : v \in {strip(text)}})}})

(***************************************************************************)
(* SpecList: one check of a PythonListFormatChecker.  The check ends at    *)
(* pc = "return" with the boolean in ret, or at pc = "raise" with the name *)
(* of the exception that leaves check_following in ret.                    *)
(***************************************************************************)
MaxListTextLen == 5
ListAlphabet == {"[", "]", "{", "}", ":", ",", "'", "a"}

\* Every short text of the alphabet, and lists between code fences
ListInputs ==
    Strings(ListAlphabet, MaxListTextLen)
        \cup {open \o v \o <<"\n">> \o FENCE :
                 open \in {FENCE \o <<"p", "y", "t", "h", "o", "n", "\n">>, FENCE \o <<"\n">>},
                 v \in {<<"[", "'", "a", "'", "]">>, <<"[", "{", "[", "]", "}", "]">>}}

InitList ==
    /\ callee = "PythonListFormatChecker"
    /\ arguments = <<>>
    /\ arg_value \in ListInputs
    /\ count = 0
    /\ description = NoDescription
    /\ ret = NoValue
    /\ pc = "call"

PythonListFormatCheck ==
    /\ pc = "call"
    /\ callee = "PythonListFormatChecker"
    /\ \E r \in {PythonListFormat_check_following(arg_value)} :
           /\ pc' = IF r.raises = "none" THEN "return" ELSE "raise"
           /\ ret' = IF r.raises = "none" THEN r.returns ELSE r.raises
    /\ UNCHANGED <<callee, arguments, description, arg_value, count>>

SpecList == InitList /\ [][PythonListFormatCheck]_vars

\* C11: for every string value the json-validity and list-literal-validity
\* checks finish with a boolean result; no exception is propagated to the
\* caller.
C11_ChecksEndWithBoolean ==
    (callee \in {"JsonFormatChecker", "PythonListFormatChecker"} /\ pc # "call") =>
        (pc = "return" /\ ret \in BOOLEAN)

\* A set display that holds a list lets a TypeError through
C11_Witness ==
    /\ callee = "PythonListFormatChecker"
    /\ arg_value = <<"{", "[", "]", "}">>
    /\ pc = "raise"
    /\ ret = "TypeError"

(***************************************************************************)
(* check_postscript and PostscriptChecker.                                 *)
(***************************************************************************)
\* \s? in a pattern: nothing, or one whitespace character.
OptionalSpace == {<<>>, <<WHITESPACE>>}

\* The part of postscript_pattern between the leading \s* and the trailing
\* .*$ , as the set of its alternatives, each a sequence of character sets.
\* The default case is given for markers without regex metacharacters.
postscript_pattern(postscript_marker) ==
    CASE postscript_marker = <<"P", ".", "P", ".", "S", ".">> ->
           {Lit(<<"p", ".">>) \o g1 \o Lit(<<"p", ".">>) \o g2 \o Lit(<<"s">>) :
                g1 \in OptionalSpace, g2 \in OptionalSpace}
      [] postscript_marker = <<"P", ".", "S", ".">> ->
           {Lit(<<"p", ".">>) \o g1 \o Lit(<<"s", ".">>) : g1 \in OptionalSpace}
      [] OTHER -> {Lit(lower(postscript_marker))}

\* re.findall(pattern, value, re.MULTILINE) is non-empty: \s* matches the
\* empty string and .*$ matches up to the end of the line, so the pattern
\* matches wherever its middle part does.
check_postscript(text, postscript_marker) ==
    \E v \in {lower(text)} :
        \E i \in 1..(Len(v) + 1), alt \in postscript_pattern(postscript_marker) :
            MatchesAt(v, i, alt)

MaxMarkerParts == 3
MaxPostscriptTextLen == 4
PostscriptAlphabet == {"p", "P", "s", ".", " "}
MarkerParts ==
    {<<"p", ".">>, <<"P", ".">>, <<"s", ".">>, <<"S", ".">>, <<"s">>, <<"N", "B">>}
MarkerGaps == {<<>>, <<" ">>, <<"\n">>, <<" ", " ">>}
MarkerLikeTexts ==
    {prefix \o parts[1] \o g1 \o parts[2] \o g2 \o parts[3] \o suffix :
        prefix \in {<<>>, <<"x", " ">>}, suffix \in {<<>>, <<" ", "x">>},
        g1 \in MarkerGaps, g2 \in MarkerGaps,
        parts \in [1..MaxMarkerParts -> MarkerParts \cup {<<>>}]}
PostscriptMarkers ==
    {<<"P", ".", "S", ".">>, <<"P", ".", "P", ".", "S", ".">>, <<"N", "B">>}

InitPostscript ==
    /\ callee = "PostscriptChecker"
    /\ arguments \in [postscript_marker : PostscriptMarkers]
    /\ arg_value \in Strings(PostscriptAlphabet, MaxPostscriptTextLen) \cup MarkerLikeTexts
    /\ count = 0
    /\ description = NoDescription
    /\ ret = NoValue
    /\ pc = "call"

PostscriptCheck ==
    /\ pc = "call"
    /\ callee = "PostscriptChecker"
    /\ ret' = check_postscript(arg_value, arguments.postscript_marker)
    /\ pc' = "return"
    /\ UNCHANGED <<callee, arguments, description, arg_value, count>>

SpecPostscript == InitPostscript /\ [][PostscriptCheck]_vars

\* The complete marker: its parts in lower case, each with its period, and
\* at most one whitespace character between consecutive parts.
CompleteMarker(postscript_marker) ==
    IF postscript_marker = <<"P", ".", "P", ".", "S", ".">>
    THEN {<<"p", ".">> \o g1 \o <<"p", ".">> \o g2 \o <<"s", ".">> :
            g1 \in {<<>>} \cup {<<w>> : w \in WHITESPACE},
            g2 \in {<<>>} \cup {<<w>> : w \in WHITESPACE}}
    ELSE {<<"p", ".">> \o g1 \o <<"s", ".">> :
            g1 \in {<<>>} \cup {<<w>> : w \in WHITESPACE}}
ContainsCompleteMarker(text, postscript_marker) ==
    \E m \in CompleteMarker(postscript_marker), i \in 1..(Len(text) + 1) :
        StartsAt(lower(text), m, i)

\* C12: the postscript check returns true exactly when the value contains,
\* in any case, the complete marker ('p.', 'p.', 's.' for 'P.P.S.' and
\* 'p.', 's.' for 'P.S.') with at most one whitespace character between
\* consecutive parts; a value without the final period of the marker fails.
C12_TrueIffCompleteMarker ==
    (/\ callee = "PostscriptChecker"
     /\ pc = "return"
     /\ arguments.postscript_marker # <<"N", "B">>)
        => (ret <=> ContainsCompleteMarker(arg_value, arguments.postscript_marker))

\* 'x P.P.S x': the marker 'P.P.S.' without its final period is accepted.
C12_Witness ==
    /\ callee = "PostscriptChecker"
    /\ pc = "return"
    /\ arguments.postscript_marker = <<"P", ".", "P", ".", "S", ".">>
    /\ arg_value = <<"x", " ", "P", ".", "P", ".", "s", " ", "x">>
    /\ ret = TRUE

\* For the marker 'P.S.' the check is true exactly when the value contains
\* the complete marker.
PS_TrueIffCompleteMarker ==
    (/\ callee = "PostscriptChecker"
     /\ pc = "return"
     /\ arguments.postscript_marker = <<"P", ".", "S", ".">>)
        => (ret <=> ContainsCompleteMarker(arg_value, arguments.postscript_marker))

(***************************************************************************)
(* TitleFormatChecker.                                                     *)
(***************************************************************************)
\* str.lstrip(chars) and str.rstrip(chars)
RECURSIVE lstrip_chars(_, _)
lstrip_chars(s, chars) ==
    IF s # <<>> /\ Head(s) \in chars THEN lstrip_chars(Tail(s), chars) ELSE s
RECURSIVE rstrip_chars(_, _)
rstrip_chars(s, chars) ==
    IF s # <<>> /\ s[Len(s)] \in chars
    THEN rstrip_chars(SubSeq(s, 1, Len(s) - 1), chars)
    ELSE s

\* The ends of the matches of <<[^\n]+>> that start at i: the positions of
\* the second '>' of a '>>' with at least one character, none of them a
\* newline, between it and the '<<' at i.
title_ends(s, i) ==
    IF StartsAt(s, <<"<", "<">>, i)
    THEN {e \in (i + 4)..Len(s) :
            /\ StartsAt(s, <<">", ">">>, e - 1)
            /\ \A k \in (i + 2)..(e - 2) : s[k] # "\n"}
    ELSE {}

\* re.findall(r"<<[^\n]+>>", s): the matches from the left, none
\* overlapping another, each as long as it can be ([^\n]+ is greedy).
RECURSIVE findall_titles(_, _)
findall_titles(s, i) ==
    IF i > Len(s) THEN <<>>
    ELSE IF title_ends(s, i) = {} THEN findall_titles(s, i + 1)
    ELSE \* the longest match starting at i
         LET e == CHOOSE e \in title_ends(s, i) : \A f \in title_ends(s, i) : f <= e
         IN  <<SubSeq(s, i, e)>> \o findall_titles(s, e + 1)

TitleFormat_check_following(text) ==
    \E title \in Elems(findall_titles(text, 1)) :
        strip(rstrip_chars(lstrip_chars(title, {"<"}), {">"})) # <<>>

MaxTitleTextLen == 7
TitleAlphabet == {"<", ">", " ", "\n", "a"}

InitTitle ==
    /\ callee = "TitleFormatChecker"
    /\ arguments = <<>>
    /\ arg_value \in Strings(TitleAlphabet, MaxTitleTextLen)
    /\ count = 0
    /\ description = NoDescription
    /\ ret = NoValue
    /\ pc = "call"

TitleFormatCheck ==
    /\ pc = "call"
    /\ callee = "TitleFormatChecker"
    /\ ret' = TitleFormat_check_following(arg_value)
    /\ pc' = "return"
    /\ UNCHANGED <<callee, arguments, description, arg_value, count>>

SpecTitle == InitTitle /\ [][TitleFormatCheck]_vars

\* The value holds '<<', then a content without a newline that is not empty
\* once its whitespace is trimmed, then '>>'.
HasTitleSpan(text) ==
    \E i \in 1..Len(text), e \in 1..Len(text) :
        /\ StartsAt(text, <<"<", "<">>, i)
        /\ e >= i + 2
        /\ StartsAt(text, <<">", ">">>, e)
        /\ \A k \in (i + 2)..(e - 1) : text[k] # "\n"
        /\ strip(SubSeq(text, i + 2, e - 1)) # <<>>

\* C13: the title check returns true exactly when the value contains a
\* '<<' ... '>>' span on a single line whose content is non-empty after
\* trimming whitespace.
C13_TrueIffTitleSpan ==
    (callee = "TitleFormatChecker" /\ pc = "return")
        => (ret <=> HasTitleSpan(arg_value))

\* '<<<>>': the title '<' between the brackets is rejected.
C13_Witness ==
    /\ callee = "TitleFormatChecker"
    /\ pc = "return"
    /\ arg_value = <<"<", "<", "<", ">", ">">>
    /\ ret = FALSE

\* A value the check accepts holds a title span.
AcceptedHasTitleSpan ==
    (callee = "TitleFormatChecker" /\ pc = "return" /\ ret)
        => HasTitleSpan(arg_value)

\* A title span with a character other than '<', '>' and whitespace on a
\* line is accepted.
IsTitleChar(c) == c \notin WHITESPACE \cup {"<", ">"}
PlainTitleAccepted ==
    (/\ callee = "TitleFormatChecker"
     /\ pc = "return"
     /\ \E i \in 1..Len(arg_value), e \in 1..Len(arg_value) :
           /\ StartsAt(arg_value, <<"<", "<">>, i)
           /\ e >= i + 2
           /\ StartsAt(arg_value, <<">", ">">>, e)
           /\ \A k \in (i + 2)..(e - 1) : arg_value[k] # "\n"
           /\ \E k \in (i + 2)..(e - 1) : IsTitleChar(arg_value[k]))
        => ret

(***************************************************************************)
(* LetterFrequencyChecker and NCommasChecker.                              *)
(***************************************************************************)
\* str.count(sub) for a non-empty sub: the occurrences of sub found from
\* the left, none overlapping another.
RECURSIVE str_count(_, _)
str_count(s, sub) ==
    IF Len(s) < Len(sub) THEN 0
    ELSE IF StartsAt(s, sub, 1)
         THEN 1 + str_count(SubSeq(s, Len(sub) + 1, Len(s)), sub)
         ELSE str_count(Tail(s), sub)

\* LetterFrequencyChecker.check_following with the value kept in its case
LetterFrequency_count_cased(text, letter) == str_count(text, lower(letter))

\* The local `count` of LetterFrequencyChecker.check_following
LetterFrequency_count(text, letter) == str_count(lower(text), lower(letter))

\* The local `count` of NCommasChecker.check_following
NCommas_count(text) == str_count(text, <<",">>)

MaxCountedN == 3
MaxCountedTextLen == 4
CountedAlphabet == {"a", "A", "i", "<U+0130>", ",", " "}

InitCounted ==
    /\ \/ /\ callee = "LetterFrequencyChecker"
          /\ arguments \in [letter : {<<"a">>, <<"A">>, <<"i">>},
                            N : 1..MaxCountedN,
                            comparison_option : COMPARISON_OPTIONS]
       \/ /\ callee = "NCommasChecker"
          /\ arguments \in [N : 1..MaxCountedN, comparison_option : COMPARISON_OPTIONS]
    /\ arg_value \in Strings(CountedAlphabet, MaxCountedTextLen)
    /\ count = 0
    /\ description = NoDescription
    /\ ret = NoValue
    /\ pc = "call"

LetterFrequencyCheck ==
    /\ pc = "call"
    /\ callee = "LetterFrequencyChecker"
    /\ count' = LetterFrequency_count(arg_value, arguments.letter)
    /\ ret' = compare_count(count', arguments.N, arguments.comparison_option)
    /\ pc' = "return"
    /\ UNCHANGED <<callee, arguments, description, arg_value>>

NCommasCheck ==
    /\ pc = "call"
    /\ callee = "NCommasChecker"
    /\ count' = NCommas_count(arg_value)
    /\ ret' = compare_count(count', arguments.N, arguments.comparison_option)
    /\ pc' = "return"
    /\ UNCHANGED <<callee, arguments, description, arg_value>>

NextCounted == LetterFrequencyCheck \/ NCommasCheck
SpecCounted == InitCounted /\ [][NextCounted]_vars

\* The characters of the text that satisfy the test (a function of the
\* character to BOOLEAN).
CharactersWhere(text, test) == Cardinality({i \in 1..Len(text) : test[text[i]]})

\* c is the letter, in lower or in upper case.
IsLetterInEitherCase(c, letter) ==
    \E k \in 1..26 : c \in {LOWER[k], UPPER[k]} /\ letter[1] \in {LOWER[k], UPPER[k]}

\* The lower-case form of c holds the letter in lower case.
LowersToLetter(c, letter) == lower(letter)[1] \in Elems(lower(<<c>>))

\* The original statement of C14: the letter-frequency check compares to N
\* the number of characters equal to the letter in either case, and the
\* comma check the number of ',' characters.
C14_CountsLetterInEitherCase ==
    (callee \in {"LetterFrequencyChecker", "NCommasChecker"} /\ pc = "return")
        => ret = compare_count(
                    CharactersWhere(arg_value,
                        [c \in CountedAlphabet |->
                            IF callee = "NCommasChecker" THEN c = ","
                            ELSE IsLetterInEitherCase(c, arguments.letter)]),
                    arguments.N, arguments.comparison_option)

\* C14: the letter-frequency check compares to N the number of characters
\* of the raw value whose lower-case form (str.lower) holds the lower-cased
\* letter: the letter in either case ('aA' has letter-a count 2) and also
\* U+0130, which lowers to 'i' and a combining dot; the comma check
\* compares to N the number of ',' characters (', ,' has count 2); no
\* punctuation or whitespace around a character hides it.
C14_CountsCharactersLoweringToLetter ==
    (callee \in {"LetterFrequencyChecker", "NCommasChecker"} /\ pc = "return")
        => /\ count = CharactersWhere(arg_value,
                        [c \in CountedAlphabet |->
                            IF callee = "NCommasChecker" THEN c = ","
                            ELSE LowersToLetter(c, arguments.letter)])
           /\ ret = compare_count(count, arguments.N, arguments.comparison_option)

\* 'aA' holds the letter a exactly twice.
C14_Witness ==
    /\ callee = "LetterFrequencyChecker"
    /\ pc = "return"
    /\ arguments = [letter |-> <<"a">>, N |-> 2, comparison_option |-> "exactly"]
    /\ arg_value = <<"a", "A">>
    /\ ret = TRUE

(***************************************************************************)
(* EndPhraseChecker.                                                       *)
(***************************************************************************)
\* str.endswith(suffix)
endswith(s, suffix) ==
    /\ Len(suffix) <= Len(s)
    /\ SubSeq(s, Len(s) - Len(suffix) + 1, Len(s)) = suffix

\* EndPhraseChecker.check_following with the value left untrimmed
EndPhrase_check_following_untrimmed(text, end_phrase) ==
    endswith(lower(text), lower(strip(end_phrase)))

EndPhrase_check_following(text, end_phrase) ==
    endswith(lower(strip(text)), lower(strip(end_phrase)))

MaxEndTextLen == 5
EndAlphabet == {"a", "A", "b", " ", "\n"}
EndPhrases == {<<"a">>, <<"a", "b">>, <<"A", " ", "b">>, <<" ", "a">>, <<"B", "\n">>, <<" ">>}

InitEndPhrase ==
    /\ callee = "EndPhraseChecker"
    /\ arguments \in [end_phrase : EndPhrases]
    /\ arg_value \in Strings(EndAlphabet, MaxEndTextLen)
    /\ count = 0
    /\ description = NoDescription
    /\ ret = NoValue
    /\ pc = "call"

EndPhraseCheck ==
    /\ pc = "call"
    /\ callee = "EndPhraseChecker"
    /\ ret' = EndPhrase_check_following(arg_value, arguments.end_phrase)
    /\ pc' = "return"
    /\ UNCHANGED <<callee, arguments, description, arg_value, count>>

SpecEndPhrase == InitEndPhrase /\ [][EndPhraseCheck]_vars

\* The value is some text, then the phrase in any case, then whitespace only.
PhraseThenWhitespace(text, phrase) ==
    \E i \in 0..Len(text), j \in 0..Len(text) :
        /\ i <= j
        /\ lower(SubSeq(text, i + 1, j)) = lower(phrase)
        /\ \A k \in (j + 1)..Len(text) : text[k] \in WHITESPACE

\* C15: the end-phrase check returns true exactly when the trimmed,
\* lower-cased value ends with the trimmed, lower-cased end_phrase: only
\* whitespace may follow the phrase, any other trailing character makes the
\* check false, and the empty value fails for a phrase that is not blank.
C15_TrueIffTrimmedSuffix ==
    (callee = "EndPhraseChecker" /\ pc = "return")
        => /\ ret <=> \E k \in 0..Len(strip(arg_value)) :
                         SubSeq(lower(strip(arg_value)), k + 1, Len(strip(arg_value)))
                            = lower(strip(arguments.end_phrase))
           /\ strip(arguments.end_phrase) # <<>>
                => /\ ret <=> PhraseThenWhitespace(arg_value, strip(arguments.end_phrase))
                   /\ arg_value = <<>> => ~ret

\* 'a b \n' ends with the phrase 'A b' followed by whitespace only.
C15_Witness ==
    /\ callee = "EndPhraseChecker"
    /\ pc = "return"
    /\ arguments.end_phrase = <<"A", " ", "b">>
    /\ arg_value = <<"a", " ", "b", " ", "\n">>
    /\ ret = TRUE

(***************************************************************************)
(* A checker instance: BaseChecker.__init__ and sample_state, the          *)
(* sample_arguments and build_description of the count-bearing checkers,   *)
(* and the callers that assign to the instance's fields.                   *)
(***************************************************************************)
COUNT_CHECKERS ==
    {"KeywordFrequencyChecker", "LetterFrequencyChecker", "WordCountChecker",
     "SentenceCountChecker", "PlaceholderCountChecker",
     "HighlightedSectionsCountChecker", "NAllCapitalWordsChecker", "NCommasChecker"}

\* Two of the words of EN_WORD_LIST
EN_WORD_LIST == {"cat", "dog"}

\* The first letters of string.ascii_lowercase
MaxSampledLetters == 3
SampledLetters == {LOWER[i] : i \in 1..MaxSampledLetters}

\* Python's None where a list is expected
None == <<"None">>

\* The values random.choice(remaining_options) can return; ignore_options is
\* a list or None. No value when every option is ignored: random.choice of
\* an empty list raises IndexError.
sample_comparison_option_unfiltered(ignore_options) == COMPARISON_OPTIONS

sample_comparison_option(ignore_options) ==
    IF ignore_options = None THEN COMPARISON_OPTIONS
    ELSE {option \in COMPARISON_OPTIONS : option \notin Elems(ignore_options)}

\* The values random.randint(a, b) can return
randint_from_zero(a, b) == 0..b

randint(a, b) == a..b

\* The values of the target N that sample_arguments can draw once the
\* comparison option is drawn.
sample_N(checker, comparison_option) ==
    CASE checker = "KeywordFrequencyChecker" -> randint(1, 2)
      [] checker = "LetterFrequencyChecker" -> randint(1, 10)
      [] checker = "WordCountChecker" ->
            (CASE comparison_option = "at least" -> randint(20, 40)
              [] comparison_option = "at most" -> randint(2, 10)
              [] comparison_option = "exactly" -> randint(1, 5))
      [] checker = "SentenceCountChecker" ->
            (CASE comparison_option = "at least" -> randint(1, 8)
              [] comparison_option = "at most" -> randint(1, 4)
              [] comparison_option = "exactly" -> randint(1, 5))
      [] checker \in {"PlaceholderCountChecker", "HighlightedSectionsCountChecker",
                      "NAllCapitalWordsChecker"} ->
            (CASE comparison_option = "at least" -> randint(1, 5)
              [] comparison_option = "at most" -> randint(1, 2)
              [] comparison_option = "exactly" -> randint(3, 7))
      [] checker = "NCommasChecker" ->
            (CASE comparison_option = "at least" -> randint(3, 7)
              [] comparison_option = "at most" -> randint(1, 3)
              [] comparison_option = "exactly" -> randint(1, 7))

\* sample_arguments with N drawn from the range of "exactly" whatever the
\* option
sample_arguments_one_range(checker) ==
    UNION {UNION {
        CASE checker = "KeywordFrequencyChecker" ->
               {[keyword |-> k, N |-> n, comparison_option |-> option] : k \in EN_WORD_LIST}
          [] checker = "LetterFrequencyChecker" ->
               {[letter |-> <<l>>, N |-> n, comparison_option |-> option] : l \in SampledLetters}
          [] OTHER -> {[N |-> n, comparison_option |-> option]}
        : n \in sample_N(checker, "exactly")}
        : option \in sample_comparison_option(
                        IF checker = "SentenceCountChecker" THEN <<"exactly">> ELSE None)}

\* The dictionaries sample_arguments can return
sample_arguments(checker) ==
    UNION {UNION {
        CASE checker = "KeywordFrequencyChecker" ->
               {[keyword |-> k, N |-> n, comparison_option |-> option] : k \in EN_WORD_LIST}
          [] checker = "LetterFrequencyChecker" ->
               {[letter |-> <<l>>, N |-> n, comparison_option |-> option] : l \in SampledLetters}
          [] OTHER -> {[N |-> n, comparison_option |-> option]}
        : n \in sample_N(checker, option)}
        : option \in sample_comparison_option(
                        IF checker = "SentenceCountChecker" THEN <<"exactly">> ELSE None)}

\* plural_form with the plural ending whatever N is
plural_form_always(N, plural, singular) == plural

\* plural_form: `plural if N > 1 else singular`
plural_form(N, plural, singular) == IF N > 1 THEN plural ELSE singular

\* The f-string build_description returns, as the sequence of its pieces:
\* the literal parts, the formatted fields, and the count noun followed by
\* plural_form.
build_description(checker, args) ==
    CASE checker = "KeywordFrequencyChecker" ->
           <<"The argument value must contain the word '", args.keyword, "' ",
             args.comparison_option, " ", ToString(args.N), " ", "time",
             plural_form(args.N, "s", ""),
             ". The occurrences may be anywhere in the string. Case does not matter.">>
      [] checker = "LetterFrequencyChecker" ->
           <<"The argument value must contain the letter '", args.letter[1], "' ",
             args.comparison_option, " ", ToString(args.N), " ", "time",
             plural_form(args.N, "s", ""), ". ", "Case does not matter.">>
      [] checker = "WordCountChecker" ->
           (CASE args.comparison_option = "exactly" ->
                  <<"The argument value must have exactly ", ToString(args.N), " ", "word",
                    plural_form(args.N, "s", ""), ". No less, no more.">>
             [] args.comparison_option = "at least" ->
                  <<"The argument value must have at least ", ToString(args.N), " ", "word",
                    plural_form(args.N, "s", ""), ". Shorter responses are not allowed.">>
             [] args.comparison_option = "at most" ->
                  <<"The argument value must have at most ", ToString(args.N), " ", "word",
                    plural_form(args.N, "s", ""), ". Longer responses are not allowed.">>)
      [] checker = "SentenceCountChecker" ->
           <<"The argument value must have ", args.comparison_option, " ",
             ToString(args.N), " ", "sentence",
             plural_form(args.N, "s. Each sentence should be properly punctuated.", ".")>>
      [] checker = "PlaceholderCountChecker" ->
           <<"The argument value must contain ", args.comparison_option, " ",
             ToString(args.N), " ", "placeholder", plural_form(args.N, "s", ""),
             ", each enclosed in square brackets (e.g., [address]).">>
      [] checker = "HighlightedSectionsCountChecker" ->
           <<"The argument value must contain ", args.comparison_option, " ",
             ToString(args.N), " ", "section", plural_form(args.N, "s", ""),
             " highlighted using markdown syntax ",
             "(e.g., *highlighted section* or **highlighted section**). Each section must not be empty.">>
      [] checker = "NAllCapitalWordsChecker" ->
           <<"The argument value must contain ", args.comparison_option, " ",
             ToString(args.N), " ", "word", plural_form(args.N, "s", ""),
             " written entirely in capital (uppercase) letters.">>
      [] checker = "NCommasChecker" ->
           <<"The argument value must contain ", args.comparison_option, " ",
             ToString(args.N), " ", "comma", plural_form(args.N, "s", ""),
             ". The commas may appear anywhere in the value.">>

\* The dictionaries a caller assigns to the arguments of an instance
MaxAssignedN == 2
AssignedArguments(checker) ==
    CASE checker = "KeywordFrequencyChecker" ->
           [keyword : {"cat"}, N : 1..MaxAssignedN, comparison_option : COMPARISON_OPTIONS]
      [] checker = "LetterFrequencyChecker" ->
           [letter : {<<"a">>}, N : 1..MaxAssignedN, comparison_option : COMPARISON_OPTIONS]
      [] OTHER -> [N : 1..MaxAssignedN, comparison_option : COMPARISON_OPTIONS]

\* The lists given to sample_comparison_option
IgnoreLists == {None} \cup UNION {[1..k -> COMPARISON_OPTIONS] : k \in 0..3}

\* BaseChecker.__init__ has run (it calls sample_state), or
\* sample_comparison_option is about to be called.
InitInstance ==
    /\ \/ /\ callee \in COUNT_CHECKERS
          /\ arguments \in sample_arguments(callee)
          /\ description = build_description(callee, arguments)
          /\ pc = "__init__"
       \/ /\ callee = "sample_comparison_option"
          /\ arguments \in IgnoreLists
          /\ description = NoDescription
          /\ pc = "call"
    /\ arg_value = <<>>
    /\ count = 0
    /\ ret = NoValue

\* sample_state with the description left as it is
sample_state_arguments_only ==
    /\ callee \in COUNT_CHECKERS
    /\ arguments' \in sample_arguments(callee)
    /\ pc' = "sample_state"
    /\ UNCHANGED <<callee, description, arg_value, count, ret>>

sample_state ==
    /\ callee \in COUNT_CHECKERS
    /\ arguments' \in sample_arguments(callee)
    /\ description' = build_description(callee, arguments')
    /\ pc' = "sample_state"
    /\ UNCHANGED <<callee, arg_value, count, ret>>

\* checker.arguments = {...}
AssignArguments ==
    /\ callee \in COUNT_CHECKERS
    /\ arguments' \in AssignedArguments(callee)
    /\ pc' = "arguments ="
    /\ UNCHANGED <<callee, description, arg_value, count, ret>>

\* checker.arguments = format_info.get("args", {}) and then
\* checker.description = format_info.get("description", "")
AssignArgumentsAndDescription ==
    /\ callee \in COUNT_CHECKERS
    /\ arguments' \in AssignedArguments(callee)
    /\ description' \in {<<>>} \cup {build_description(callee, a) : a \in AssignedArguments(callee)}
    /\ pc' = "arguments = ; description ="
    /\ UNCHANGED <<callee, arg_value, count, ret>>

SampleComparisonOption ==
    /\ callee = "sample_comparison_option"
    /\ pc = "call"
    /\ \/ /\ sample_comparison_option(arguments) # {}
          /\ ret' \in sample_comparison_option(arguments)
          /\ pc' = "return"
       \/ /\ sample_comparison_option(arguments) = {}
          /\ ret' = "IndexError"
          /\ pc' = "raise"
    /\ UNCHANGED <<callee, arguments, description, arg_value, count>>

\* The count that check_following compares to N
check_count(checker, args, text) ==
    CASE checker = "LetterFrequencyChecker" -> LetterFrequency_count(text, args.letter)
      [] checker = "NCommasChecker" -> NCommas_count(text)
      [] checker = "WordCountChecker" -> Len(regexp_tokenize(text))
      [] checker = "HighlightedSectionsCountChecker" -> count_highlighted_sections(text)
      [] checker = "SentenceCountChecker" -> Len(extract_sentences(text))

\* check_following of an instance of the class with the arguments args:
\* what it returns, or the exception it raises. self.arguments[key] raises
\* KeyError for a key the dictionary lacks.
check_following(checker, args, text) ==
    IF checker = "PythonListFormatChecker" THEN PythonListFormat_check_following(text)
    ELSE IF \/ ~({"N", "comparison_option"} \subseteq DOMAIN args)
            \/ (checker = "LetterFrequencyChecker" /\ "letter" \notin DOMAIN args)
         THEN [raises |-> "KeyError", returns |-> FALSE]
         ELSE [raises |-> "none",
               returns |-> compare_count(check_count(checker, args, text),
                                         args.N, args.comparison_option)]

\* The checkers whose check_following the instance runs here, and the values
\* it is given
CHECKED_CHECKERS ==
    {"LetterFrequencyChecker", "NCommasChecker", "WordCountChecker",
     "HighlightedSectionsCountChecker", "SentenceCountChecker"}
CheckedTexts ==
    {<<>>,
     <<"a", ",", " ", "A", ".">>,
     <<"*", "a", "*", " ", "b", ",", "c">>,
     <<"A", "b", ".", " ", "C", ",", ",", " ", "a", "?">>}

\* check_following that samples the instance again before it checks
CheckFollowingResampling ==
    /\ callee \in CHECKED_CHECKERS
    /\ arg_value' \in CheckedTexts
    /\ arguments' \in sample_arguments(callee)
    /\ ret' = check_following(callee, arguments', arg_value').returns
    /\ pc' = "check_following"
    /\ UNCHANGED <<callee, description, count>>

\* checker.check_following(arg_value) on the instance
CheckFollowing ==
    /\ callee \in CHECKED_CHECKERS
    /\ arg_value' \in CheckedTexts
    /\ ret' = check_following(callee, arguments, arg_value').returns
    /\ pc' = "check_following"
    /\ UNCHANGED <<callee, arguments, description, count>>

NextInstance ==
    \/ sample_state
    \/ AssignArguments
    \/ AssignArgumentsAndDescription
    \/ SampleComparisonOption
    \/ CheckFollowing

SpecInstance == InitInstance /\ [][NextInstance]_vars

\* The instance is freshly sampled: nothing has been assigned to its fields
\* since __init__ or the last sample_state.
FreshlySampled == callee \in COUNT_CHECKERS /\ pc \in {"__init__", "sample_state"}

\* The original statement of C16: in every state of an instance, a caller's
\* assignment to arguments included, the description is build_description
\* of the current arguments, unless the caller overwrote both fields.
C16_DescriptionFollowsArguments ==
    (callee \in COUNT_CHECKERS /\ pc # "arguments = ; description =")
        => description = build_description(callee, arguments)

\* C16: after construction and after every sample_state the description is
\* build_description of the current arguments; only sample_state recomputes
\* it: an assignment to arguments leaves the description as it was.
C16_DescriptionRecomputedBySampleStateOnly ==
    /\ (callee \in COUNT_CHECKERS /\ pc = "__init__")
          => description = build_description(callee, arguments)
    /\ [][/\ pc' = "sample_state" => description' = build_description(callee', arguments')
          /\ pc' = "arguments =" => description' = description]_vars

\* The arguments were assigned and the description no longer describes them.
C16_Witness ==
    /\ callee = "KeywordFrequencyChecker"
    /\ pc = "arguments ="
    /\ arguments = [keyword |-> "cat", N |-> 2, comparison_option |-> "exactly"]
    /\ description # build_description(callee, arguments)

\* The original statement of C17: every freshly sampled count-bearing
\* checker has one of the three comparison options and 1 <= N <= 10.
C17_SampledTargetAtMostTen ==
    FreshlySampled
        => /\ arguments.comparison_option \in {"exactly", "at least", "at most"}
           /\ arguments.N \in 1..10

\* C17: every freshly sampled count-bearing checker has one of the three
\* comparison options and a target 1 <= N <= 40; N <= 10 except for the
\* word count with "at least", whose target is between 20 and 40.
C17_SampledTargetAtMostForty ==
    FreshlySampled
        => /\ arguments.comparison_option \in {"exactly", "at least", "at most"}
           /\ arguments.N \in 1..40
           /\ IF callee = "WordCountChecker" /\ arguments.comparison_option = "at least"
              THEN arguments.N \in 20..40
              ELSE arguments.N \in 1..10

\* A word count sampled with the target 40.
C17_Witness ==
    /\ callee = "WordCountChecker"
    /\ pc = "sample_state"
    /\ arguments = [N |-> 40, comparison_option |-> "at least"]

\* sample_state can draw the option, the target, and the two together.
CanSampleOption(option) ==
    ENABLED (sample_state /\ arguments'.comparison_option = option)
CanSampleN(n) ==
    ENABLED (sample_state /\ arguments'.N = n)
CanSamplePair(option, n) ==
    ENABLED (sample_state /\ arguments'.comparison_option = option /\ arguments'.N = n)
PairsAreFullProduct ==
    \A option \in COMPARISON_OPTIONS :
        CanSampleOption(option)
            => \A n \in 0..41 : CanSampleN(n) => CanSamplePair(option, n)

\* The original statement of C18: for every count-bearing checker the
\* (comparison_option, N) pairs that sampling can reach are the full product
\* of the options it can reach and the targets it can reach.
C18_TargetIndependentOfOption ==
    (callee \in COUNT_CHECKERS /\ pc = "__init__") => PairsAreFullProduct

\* C18: the pairs that sampling can reach are the full product for the
\* keyword-frequency and letter-frequency checkers only; for the other six
\* count-bearing checkers the range of N depends on the sampled option.
C18_TargetDependsOnOption ==
    (callee \in COUNT_CHECKERS /\ pc = "__init__")
        => (PairsAreFullProduct
                <=> callee \in {"KeywordFrequencyChecker", "LetterFrequencyChecker"})

\* A placeholder count sampled with "exactly" and 7, a target that "at
\* most" never gets.
C18_Witness ==
    /\ callee = "PlaceholderCountChecker"
    /\ pc = "sample_state"
    /\ arguments = [N |-> 7, comparison_option |-> "exactly"]
    /\ ~CanSamplePair("at most", 7)

\* C19: a sentence count that was constructed or sampled never has the
\* option "exactly", and sample_comparison_option never returns an option
\* of ignore_options.
C19_IgnoredOptionNeverSampled ==
    /\ (FreshlySampled /\ callee = "SentenceCountChecker")
          => arguments.comparison_option # "exactly"
    /\ (callee = "sample_comparison_option" /\ pc = "return")
          => /\ ret \in COMPARISON_OPTIONS
             /\ ret \notin Elems(arguments)

\* sample_comparison_option(["exactly", "at most"]) returned "at least".
C19_Witness ==
    /\ callee = "sample_comparison_option"
    /\ pc = "return"
    /\ arguments = <<"exactly", "at most">>
    /\ ret = "at least"

\* The count noun of each checker's description
CountNoun ==
    [c \in COUNT_CHECKERS |->
        CASE c \in {"KeywordFrequencyChecker", "LetterFrequencyChecker"} -> "time"
          [] c \in {"WordCountChecker", "NAllCapitalWordsChecker"} -> "word"
          [] c = "SentenceCountChecker" -> "sentence"
          [] c = "PlaceholderCountChecker" -> "placeholder"
          [] c = "HighlightedSectionsCountChecker" -> "section"
          [] c = "NCommasChecker" -> "comma"]

\* The description holds the noun followed by a piece from the set.
NounFollowedBy(noun, endings) ==
    \E i \in 1..(Len(description) - 1) :
        description[i] = noun /\ description[i + 1] \in endings

\* C20: the description rendered for a target N >= 1 has the count noun in
\* the singular exactly when N = 1 and in the plural exactly when N > 1.
C20_SingularIffOne ==
    FreshlySampled
        => /\ arguments.N >= 1
           /\ arguments.N = 1
                <=> NounFollowedBy(CountNoun[callee], {"", "."})
           /\ arguments.N > 1
                <=> NounFollowedBy(CountNoun[callee],
                        {"s", "s. Each sentence should be properly punctuated."})

\* 'The argument value must contain at most 1 comma. ...'
C20_Witness ==
    /\ callee = "NCommasChecker"
    /\ pc = "sample_state"
    /\ arguments = [N |-> 1, comparison_option |-> "at most"]
    /\ NounFollowedBy("comma", {""})

\* C21: check_following leaves the arguments and the description of the
\* instance as they are, and a check of the value that was checked just
\* before returns the same result, however many checks of other values
\* the instance ran before.
C21_CheckLeavesInstanceUnchanged ==
    [][pc' = "check_following"
          => /\ arguments' = arguments
             /\ description' = description
             /\ ret' = check_following(callee, arguments, arg_value').returns
             /\ (pc = "check_following" /\ arg_value' = arg_value) => ret' = ret]_vars

\* A comma count of the value 'a, A.' was checked after other checks.
C21_Witness ==
    /\ callee = "NCommasChecker"
    /\ pc = "check_following"
    /\ arguments = [N |-> 1, comparison_option |-> "exactly"]
    /\ arg_value = <<"a", ",", " ", "A", ".">>
    /\ ret = TRUE

(***************************************************************************)
(* FunctionCallEvaluator: call_llm, evaluate_response and                  *)
(* calculate_summary_stats for the user queries of one test record, and    *)
(* create_format_statistics over the saved results.                        *)
(*                                                                         *)
(* A test record without user queries is skipped: no call, no result.     *)
(* arguments holds test_data with n_retries, count the attempts call_llm   *)
(* has made, arg_value the responses call_llm returned, and ret the list   *)
(* all_results, then the summary. overall_score is 1 for 1.0 and 0 for 0.0.*)
(***************************************************************************)
\* self.checker_classes: the names of the classes of get_all_checkers()
checker_classes ==
    {"KeywordsPresenceChecker", "KeywordFrequencyChecker", "LetterFrequencyChecker",
     "CyrillicGreekChecker", "WordCountChecker", "SentenceCountChecker",
     "PostscriptChecker", "PlaceholderCountChecker", "SpacesInBetweenChecker",
     "TitleFormatChecker", "HighlightedSectionsCountChecker", "JsonFormatChecker",
     "PythonListFormatChecker", "AllUppercaseChecker", "AllLowercaseChecker",
     "NAllCapitalWordsChecker", "EndPhraseChecker", "QuotationChecker",
     "NCommasChecker"}

\* The checker keeps the state its constructor sampled
checker_state_as_sampled(sampled, format_info) == sampled

\* The state of the checker once evaluate_response has assigned to it:
\* checker.arguments = format_info.get("args", {}) and
\* checker.description = format_info.get("description", "")
checker_state(sampled, format_info) ==
    [arguments |-> format_info.args, description |-> format_info.description]

\* format_followed that takes a check that raised for a check that passed
format_followed_unless_false(format_info, tool_call, chosen_param, sampled) ==
    /\ tool_call.args[chosen_param].type = "str"
    /\ format_info.name \in checker_classes
    /\ \E r \in {check_following(format_info.name,
                                 checker_state(sampled, format_info).arguments,
                                 tool_call.args[chosen_param].value)} :
          r.raises # "none" \/ r.returns

\* The body of the second loop of evaluate_response for one tool call goes
\* on to the next tool call: the value is a string, the class is in the
\* registry, and check_following returns True without raising.
format_followed(format_info, tool_call, chosen_param, sampled) ==
    /\ tool_call.args[chosen_param].type = "str"
    /\ format_info.name \in checker_classes
    /\ \E r \in {check_following(format_info.name,
                                 checker_state(sampled, format_info).arguments,
                                 tool_call.args[chosen_param].value)} :
          r.raises = "none" /\ r.returns

\* evaluate_response that looks at the first tool call only
evaluate_response_first_call(test_data, tool_calls, sampled) ==
    LET result == [expected_function |-> test_data.fn_schema.name,
                   format_name |-> test_data.format.name,
                   function_called |-> FALSE,
                   parameter_provided |-> FALSE,
                   format_correct |-> FALSE,
                   overall_score |-> 0]
    IN  IF tool_calls = <<>> THEN result
        ELSE IF test_data.chosen_param \notin DOMAIN tool_calls[1].args
        THEN [result EXCEPT !.function_called = TRUE]
        ELSE IF ~format_followed(test_data.format, tool_calls[1],
                                 test_data.chosen_param, sampled)
        THEN [result EXCEPT !.function_called = TRUE, !.parameter_provided = TRUE]
        ELSE [result EXCEPT !.function_called = TRUE, !.parameter_provided = TRUE,
                            !.format_correct = TRUE, !.overall_score = 1]

\* evaluate_response; `sampled` is the state the constructor of the checker
\* draws for each tool call.
evaluate_response(test_data, tool_calls, sampled) ==
    LET result == [expected_function |-> test_data.fn_schema.name,
                   format_name |-> test_data.format.name,
                   function_called |-> FALSE,
                   parameter_provided |-> FALSE,
                   format_correct |-> FALSE,
                   overall_score |-> 0]
    IN  IF tool_calls = <<>> THEN result
        ELSE IF \E i \in 1..Len(tool_calls) :
                    test_data.chosen_param \notin DOMAIN tool_calls[i].args
        THEN [result EXCEPT !.function_called = TRUE]
        ELSE IF \E i \in 1..Len(tool_calls) :
                    ~format_followed(test_data.format, tool_calls[i],
                                     test_data.chosen_param, sampled)
        THEN [result EXCEPT !.function_called = TRUE, !.parameter_provided = TRUE]
        ELSE [result EXCEPT !.function_called = TRUE, !.parameter_provided = TRUE,
                            !.format_correct = TRUE, !.overall_score = 1]

\* calculate_summary_stats, followed by summary["detailed_results"] =
\* all_results; a rate is kept as the pair of its numerator and denominator.
calculate_summary_stats(results) ==
    LET Count(field) == Cardinality({i \in 1..Len(results) : results[i][field]})
    IN  IF results = <<>>
        THEN [error |-> "No results to summarize", detailed_results |-> results]
        ELSE
        [total_queries |-> Len(results),
         function_called_rate |-> <<Count("function_called"), Len(results)>>,
         parameter_provided_rate |-> <<Count("parameter_provided"), Len(results)>>,
         format_correct_rate |-> <<Count("format_correct"), Len(results)>>,
         function_called_count |-> Count("function_called"),
         parameter_provided_count |-> Count("parameter_provided"),
         format_correct_count |-> Count("format_correct"),
         detailed_results |-> results]

\* create_format_statistics that counts the results with a function call
create_format_statistics_called(detailed_results) ==
    LET names == {detailed_results[i].format_name : i \in 1..Len(detailed_results)}
        of(name) == {i \in 1..Len(detailed_results) :
                        detailed_results[i].format_name = name}
    IN  [name \in names |->
            [total |-> Cardinality(of(name)),
             correct |-> Cardinality({i \in of(name) : detailed_results[i].function_called})]]

\* create_format_statistics over data['detailed_results']; the accuracy is
\* correct / total
create_format_statistics(detailed_results) ==
    LET names == {detailed_results[i].format_name : i \in 1..Len(detailed_results)}
        of(name) == {i \in 1..Len(detailed_results) :
                        detailed_results[i].format_name = name}
    IN  [name \in names |->
            [total |-> Cardinality(of(name)),
             correct |-> Cardinality({i \in of(name) : detailed_results[i].format_correct})]]

MaxQueries == 2
MaxRetries == 2
MaxToolCalls == 2

\* A value of a tool call argument: a string, or something else
Str(text) == [type |-> "str", value |-> text]
ArgumentValues ==
    {Str(<<"a", ",", "b">>), Str(<<"a", "b">>), Str(<<"[", "'", "a", "'", "]">>),
     Str(<<"{", "[", "]", "}">>), [type |-> "int", value |-> <<"5">>]}
ToolCalls ==
    {[name |-> "send_message", args |-> [text |-> v]] : v \in ArgumentValues}
        \cup {[name |-> "send_message", args |-> [recipient |-> Str(<<"a", ",", "b">>)]],
              [name |-> "other_function", args |-> [text |-> Str(<<"a", ",", "b">>)]],
              [name |-> "other_function", args |-> [text |-> Str(<<"[", "'", "a", "'", "]">>)]]}
Responses == UNION {[1..k -> ToolCalls] : k \in 0..MaxToolCalls}

\* The "format" entry of a test record
Formats ==
    {[name |-> "NCommasChecker", args |-> a,
      description |-> build_description("NCommasChecker", [N |-> 1, comparison_option |-> "at least"])] :
        a \in {[N |-> 1, comparison_option |-> "at least"], [N |-> 1]}}
      \cup {[name |-> "PythonListFormatChecker", args |-> <<>>,
             description |-> <<"The argument value must be a valid python list of strings. ">>],
            [name |-> "UnknownChecker", args |-> <<>>, description |-> <<>>]}

\* The state the constructor of a checker of the class can draw
SampledStates(name) ==
    IF name \in COUNT_CHECKERS
    THEN {[arguments |-> a, description |-> build_description(name, a)] :
            a \in sample_arguments(name)}
    ELSE {[arguments |-> <<>>, description |-> <<>>]}

InitEvaluate ==
    /\ callee = "evaluate_all_data"
    /\ arguments \in [test_data : [fn_schema : [name : {"send_message"}],
                                   chosen_param : {"text"},
                                   format : Formats,
                                   user_queries : {[i \in 1..n |-> "query"] : n \in 0..MaxQueries}],
                      n_retries : 0..MaxRetries]
    /\ description = NoDescription
    /\ arg_value = <<>>
    /\ count = 0
    /\ ret = <<>>
    /\ pc = IF arguments.test_data.user_queries = <<>> THEN "evaluate" ELSE "call_llm"

\* One pass of the loop of call_llm: abatch returns the responses, or the
\* attempt raises and the loop goes on.
CallLLMAttempt ==
    /\ pc = "call_llm"
    /\ count < arguments.n_retries
    /\ \/ /\ arg_value' \in [1..Len(arguments.test_data.user_queries) -> Responses]
          /\ pc' = "evaluate"
          /\ UNCHANGED count
       \/ /\ count' = count + 1
          /\ UNCHANGED <<arg_value, pc>>
    /\ UNCHANGED <<callee, arguments, description, ret>>

\* call_llm that returns one placeholder message whatever the queries
CallLLMGiveUpWithOne ==
    /\ pc = "call_llm"
    /\ count >= arguments.n_retries
    /\ arg_value' = <<<<>>>>
    /\ pc' = "evaluate"
    /\ UNCHANGED <<callee, arguments, description, count, ret>>

\* call_llm after the loop: one placeholder message, without tool calls, for
\* each user query
CallLLMGiveUp ==
    /\ pc = "call_llm"
    /\ count >= arguments.n_retries
    /\ arg_value' = [i \in 1..Len(arguments.test_data.user_queries) |-> <<>>]
    /\ pc' = "evaluate"
    /\ UNCHANGED <<callee, arguments, description, count, ret>>

\* evaluate_response for the next response, appended to all_results
EvaluateResponse ==
    /\ pc = "evaluate"
    /\ Len(ret) < Len(arg_value)
    /\ \E sampled \in SampledStates(arguments.test_data.format.name) :
          ret' = Append(ret, evaluate_response(arguments.test_data,
                                               arg_value[Len(ret) + 1], sampled))
    /\ UNCHANGED <<callee, arguments, description, arg_value, count, pc>>

CalculateSummaryStats ==
    /\ pc = "evaluate"
    /\ Len(ret) = Len(arg_value)
    /\ ret' = calculate_summary_stats(ret)
    /\ pc' = "return"
    /\ UNCHANGED <<callee, arguments, description, arg_value, count>>

NextEvaluate ==
    \/ CallLLMAttempt
    \/ CallLLMGiveUp
    \/ EvaluateResponse
    \/ CalculateSummaryStats

SpecEvaluate == InitEvaluate /\ [][NextEvaluate]_vars

\* The fair run: the loops of call_llm and of evaluate_all_data go on as
\* long as they have a step to take.
SpecEvaluateFair == SpecEvaluate /\ WF_vars(NextEvaluate)

\* C22: the result of evaluate_response for a record and a response is the
\* same whatever state the constructor of the checker sampled: the state is
\* replaced by the args and the description of the record before the check.
C22_ResultIndependentOfSample ==
    [][(pc = "evaluate" /\ pc' = "evaluate")
          => \A sampled \in SampledStates(arguments.test_data.format.name) :
                /\ checker_state(sampled, arguments.test_data.format)
                      = [arguments |-> arguments.test_data.format.args,
                         description |-> arguments.test_data.format.description]
                /\ ret'[Len(ret')] = evaluate_response(arguments.test_data,
                                                       arg_value[Len(ret')], sampled)]_vars

\* 'a,b' was accepted against the record's "at least 1 comma", whatever the
\* constructor had sampled.
C22_Witness ==
    /\ callee = "evaluate_all_data"
    /\ pc = "evaluate"
    /\ arguments.test_data.format.name = "NCommasChecker"
    /\ Len(ret) = 1
    /\ arg_value[1] = <<[name |-> "send_message", args |-> [text |-> Str(<<"a", ",", "b">>)]]>>
    /\ ret[1].format_correct

\* The results evaluated so far, each with the tool calls it was given
Evaluated ==
    IF callee = "evaluate_all_data" /\ pc = "evaluate"
    THEN {[tool_calls |-> arg_value[i], result |-> ret[i]] : i \in 1..Len(ret)}
    ELSE {}

\* The value of the chosen parameter in the tool call is a string that the
\* checker of the record, with the args of the record, accepts.
Accepted(tool_call) ==
    /\ arguments.test_data.chosen_param \in DOMAIN tool_call.args
    /\ tool_call.args[arguments.test_data.chosen_param].type = "str"
    /\ arguments.test_data.format.name \in checker_classes
    /\ check_following(arguments.test_data.format.name,
                       arguments.test_data.format.args,
                       tool_call.args[arguments.test_data.chosen_param].value)
          = [raises |-> "none", returns |-> TRUE]

\* C23: overall_score is 1.0 only if a function is called, every tool call
\* names the expected function, the chosen parameter is provided and its
\* format is correct.
C23_ScoreRequiresExpectedFunction ==
    \A e \in Evaluated :
        e.result.overall_score = 1
            => /\ e.tool_calls # <<>>
               /\ \A tool_call \in Elems(e.tool_calls) :
                     /\ tool_call.name = arguments.test_data.fn_schema.name
                     /\ Accepted(tool_call)

\* A call of other_function with a compliant value has the score 1.0.
C23_Witness ==
    /\ callee = "evaluate_all_data"
    /\ pc = "evaluate"
    /\ arguments.test_data.format.name = "NCommasChecker"
    /\ arguments.test_data.fn_schema.name = "send_message"
    /\ Len(ret) = 1
    /\ arg_value[1] = <<[name |-> "other_function", args |-> [text |-> Str(<<"a", ",", "b">>)]]>>
    /\ ret[1].overall_score = 1

\* C24: parameter_provided is true only if every tool call carries the
\* chosen parameter, format_correct only if in every tool call the parameter
\* is a string the record's checker accepts, and one tool call that lacks
\* the parameter, carries a non-string or fails the check gives the score 0.0.
C24_EveryToolCallMustPass ==
    \A e \in Evaluated :
        /\ e.result.parameter_provided
              => \A tool_call \in Elems(e.tool_calls) :
                    arguments.test_data.chosen_param \in DOMAIN tool_call.args
        /\ e.result.format_correct
              => \A tool_call \in Elems(e.tool_calls) : Accepted(tool_call)
        /\ (\E tool_call \in Elems(e.tool_calls) : ~Accepted(tool_call))
              => e.result.overall_score = 0

\* Two tool calls, the first compliant, the second without a comma: 0.0.
C24_Witness ==
    /\ callee = "evaluate_all_data"
    /\ pc = "evaluate"
    /\ arguments.test_data.format = [name |-> "NCommasChecker",
            args |-> [N |-> 1, comparison_option |-> "at least"],
            description |-> build_description("NCommasChecker",
                                              [N |-> 1, comparison_option |-> "at least"])]
    /\ Len(ret) = 1
    /\ arg_value[1] = <<[name |-> "send_message", args |-> [text |-> Str(<<"a", ",", "b">>)]],
                        [name |-> "send_message", args |-> [text |-> Str(<<"a", "b">>)]]>>
    /\ ret[1].parameter_provided
    /\ ~ret[1].format_correct
    /\ ret[1].overall_score = 0

\* C25: call_llm makes at most n_retries attempts and ends; when every
\* attempt raised it returns one message without tool calls for each user
\* query, otherwise the responses of the attempt that did not raise; a
\* message without tool calls is scored function_called = false and 0.0.
C25_CallLLMEndsWithinRetries ==
    /\ [](callee = "evaluate_all_data" => count <= arguments.n_retries)
    /\ [][(pc = "call_llm" /\ pc' = "evaluate")
            => /\ Len(arg_value') = Len(arguments.test_data.user_queries)
               /\ count >= arguments.n_retries
                    => \A i \in 1..Len(arg_value') : arg_value'[i] = <<>>]_vars
    /\ [](\A e \in Evaluated :
              e.tool_calls = <<>>
                  => ~e.result.function_called /\ e.result.overall_score = 0)
    /\ <>(pc # "call_llm")

\* Both attempts raised, and the two placeholders were scored.
C25_Witness ==
    /\ callee = "evaluate_all_data"
    /\ pc = "evaluate"
    /\ arguments.n_retries = 2
    /\ count = 2
    /\ arg_value = <<<<>>, <<>>>>
    /\ Len(ret) = 2
    /\ ~ret[2].function_called

\* C26: for a response whose tool calls all carry the chosen parameter, a
\* format name outside the registry, or a check that raises, gives
\* function_called and parameter_provided true, format_correct false and
\* the score 0.0; nothing is raised to the caller.
C26_CheckerFailureIsFormatIncorrect ==
    \A e \in Evaluated :
        (/\ e.tool_calls # <<>>
         /\ \A tool_call \in Elems(e.tool_calls) :
               arguments.test_data.chosen_param \in DOMAIN tool_call.args
         /\ \/ arguments.test_data.format.name \notin checker_classes
            \/ \E tool_call \in Elems(e.tool_calls) :
                  /\ tool_call.args[arguments.test_data.chosen_param].type = "str"
                  /\ check_following(arguments.test_data.format.name,
                                     arguments.test_data.format.args,
                                     tool_call.args[arguments.test_data.chosen_param].value
                                    ).raises # "none")
            => /\ e.result.function_called
               /\ e.result.parameter_provided
               /\ ~e.result.format_correct
               /\ e.result.overall_score = 0

\* The stored args of a comma count lack comparison_option: KeyError.
C26_Witness ==
    /\ callee = "evaluate_all_data"
    /\ pc = "evaluate"
    /\ arguments.test_data.format.name = "NCommasChecker"
    /\ arguments.test_data.format.args = [N |-> 1]
    /\ Len(ret) = 1
    /\ arg_value[1] = <<[name |-> "send_message", args |-> [text |-> Str(<<"a", ",", "b">>)]]>>
    /\ ret[1].parameter_provided
    /\ ~ret[1].format_correct

\* C26 as worded, for every response: a format name outside the registry,
\* or a string value on which the check raises, gives function_called and
\* parameter_provided true, format_correct false and the score 0.0.
C26_FailureGivesCalledAndProvided ==
    \A e \in Evaluated :
        (\/ arguments.test_data.format.name \notin checker_classes
         \/ \E tool_call \in Elems(e.tool_calls) :
               /\ arguments.test_data.chosen_param \in DOMAIN tool_call.args
               /\ tool_call.args[arguments.test_data.chosen_param].type = "str"
               /\ arguments.test_data.format.name \in checker_classes
               /\ check_following(arguments.test_data.format.name,
                                  arguments.test_data.format.args,
                                  tool_call.args[arguments.test_data.chosen_param].value
                                 ).raises # "none")
            => /\ e.result.function_called
               /\ e.result.parameter_provided
               /\ ~e.result.format_correct
               /\ e.result.overall_score = 0

\* C27: in every result format_correct implies parameter_provided, which
\* implies function_called, and overall_score is 1.0 exactly when
\* format_correct; so in every summary with counts format_correct_count <=
\* parameter_provided_count <= function_called_count <= total_queries, and
\* create_format_statistics counts for each format as many correct results
\* as there are results with the score 1.0.
C27_FlagsAreNested ==
    /\ \A e \in Evaluated :
          /\ e.result.format_correct => e.result.parameter_provided
          /\ e.result.parameter_provided => e.result.function_called
          /\ e.result.overall_score = 1 <=> e.result.format_correct
          /\ e.result.overall_score \in {0, 1}
    /\ (callee = "evaluate_all_data" /\ pc = "return" /\ "total_queries" \in DOMAIN ret)
          => /\ ret.format_correct_count <= ret.parameter_provided_count
             /\ ret.parameter_provided_count <= ret.function_called_count
             /\ ret.function_called_count <= ret.total_queries
             /\ \A name \in DOMAIN create_format_statistics(ret.detailed_results) :
                   /\ create_format_statistics(ret.detailed_results)[name].correct
                        = Cardinality({i \in 1..Len(ret.detailed_results) :
                                          /\ ret.detailed_results[i].format_name = name
                                          /\ ret.detailed_results[i].overall_score = 1})
                   /\ create_format_statistics(ret.detailed_results)[name].total
                        = Cardinality({i \in 1..Len(ret.detailed_results) :
                                          ret.detailed_results[i].format_name = name})

\* A summary of two results: one with a function call and the parameter but
\* a wrong format, one fully correct.
C27_Witness ==
    /\ callee = "evaluate_all_data"
    /\ pc = "return"
    /\ "total_queries" \in DOMAIN ret
    /\ ret.total_queries = 2
    /\ ret.function_called_count = 2
    /\ ret.parameter_provided_count = 2
    /\ ret.format_correct_count = 1

\* The keyword k occurs in the value as a whole word, in any letter case:
\* it is there with a separator, or an end of the value, on both sides.
OccursAsWholeWord(value, k) ==
    \E i \in 1..Len(value) :
        /\ i + Len(k) - 1 <= Len(value)
        /\ lower(SubSeq(value, i, i + Len(k) - 1)) = lower(k)
        /\ i > 1 => value[i - 1] \in ASCII_PUNCTUATION \cup WHITESPACE
        /\ i + Len(k) - 1 < Len(value)
              => value[i + Len(k)] \in ASCII_PUNCTUATION \cup WHITESPACE

\* What the check returns for the same keywords and value with must_include
\* the other way round
KeywordsPresence_opposite ==
    KeywordsPresence_check_following(
        [arguments EXCEPT !.must_include = ~arguments.must_include], arg_value)

\* C28: for a non-empty keyword list and a value, the check with
\* must_include = true and the check with must_include = false are never
\* both satisfied, and both are unsatisfied exactly when at least one but
\* not all of the keywords occur in the value as whole words.
C28_IncludeAndExcludeNeverBothHold ==
    (pc = "return" /\ callee = "KeywordsPresenceChecker"
        /\ Len(arguments.list_of_keywords) > 0)
        => /\ ~(ret = TRUE /\ KeywordsPresence_opposite)
           /\ (ret = FALSE /\ ~KeywordsPresence_opposite)
                <=> /\ \E k \in Elems(arguments.list_of_keywords) :
                          OccursAsWholeWord(arg_value, k)
                    /\ \E k \in Elems(arguments.list_of_keywords) :
                          ~OccursAsWholeWord(arg_value, k)

\* 'ab.' holds the keyword "Ab" as a word and not the keyword "a": neither
\* check is satisfied.
C28_Witness ==
    /\ pc = "return"
    /\ callee = "KeywordsPresenceChecker"
    /\ arguments.list_of_keywords = << <<"a">>, <<"A", "b">> >>
    /\ ~arguments.must_include
    /\ arg_value = <<"a", "b", ".">>
    /\ ret = FALSE
    /\ ~KeywordsPresence_opposite

\* The number of '*' characters in the text
count_asterisks(text) == Cardinality({i \in 1..Len(text) : text[i] = "*"})

\* C29: count_highlighted_sections returns a non-negative integer that is
\* at most floor(a / 2), a being the number of '*' characters in the text;
\* it returns 0 for a text with fewer than two asterisks.
C29_CountAtMostHalfTheAsterisks ==
    HighlightsCounted =>
        /\ count \in Nat
        /\ count <= count_asterisks(arg_value) \div 2
        /\ count_asterisks(arg_value) < 2 => count = 0

\* '*a**a*' has four asterisks and two highlighted sections.
C29_Witness ==
    /\ HighlightsCounted
    /\ arg_value = <<"*", "a", "*", "*", "a", "*">>
    /\ count = 2

\* The value is two words, of characters that are not whitespace, with
\* n spaces between them.
TwoWordsSpacedBy(value, n) ==
    \E i \in 1..Len(value) :
        /\ i + n < Len(value)
        /\ \A j \in 1..Len(value) :
              IF j > i /\ j <= i + n
              THEN value[j] = " "
              ELSE value[j] \notin WHITESPACE

\* C30 as worded: a value with N+1 spaces between two words is rejected, and
\* the string reconstructed by joining the N-space-split parts with N spaces
\* does not match the value.
C30_RejectedByReconstruction ==
    (SpacesChecked /\ TwoWordsSpacedBy(arg_value, arguments.N + 1))
        => /\ ret = FALSE
           /\ SpacesInBetween_reconstructed(arguments, arg_value) # arg_value

\* C30 amended: a value with N+1 spaces between two words is rejected; the
\* reconstructed string equals the value, and the value is rejected because
\* one of the N-space-split parts is empty (N = 1) or still holds a space
\* (N >= 2).
C30_RejectedBySpaceLeftInPart ==
    (SpacesChecked /\ TwoWordsSpacedBy(arg_value, arguments.N + 1))
        => /\ ret = FALSE
           /\ SpacesInBetween_reconstructed(arguments, arg_value) = arg_value
           /\ Len(SpacesInBetween_parts(arguments, arg_value)) >= 2
           /\ arguments.N = 1
                 => \E k \in 1..Len(SpacesInBetween_parts(arguments, arg_value)) :
                       SpacesInBetween_parts(arguments, arg_value)[k] = <<>>
           /\ arguments.N >= 2
                 => /\ \A k \in 1..Len(SpacesInBetween_parts(arguments, arg_value)) :
                          SpacesInBetween_parts(arguments, arg_value)[k] # <<>>
                    /\ \E k \in 1..Len(SpacesInBetween_parts(arguments, arg_value)) :
                          Contains(SpacesInBetween_parts(arguments, arg_value)[k], <<" ">>)

\* N = 5 and 'a      a' with six spaces: rejected, the parts being 'a' and
\* ' a'.
C30_Witness ==
    /\ SpacesChecked
    /\ arguments.N = 5
    /\ arg_value = <<"a", " ", " ", " ", " ", " ", " ", "a">>
    /\ ret = FALSE
    /\ SpacesInBetween_parts(arguments, arg_value) = << <<"a">>, <<" ", "a">> >>
====
